---- MODULE Spec2Model ----
(***************************************************************************)
(* Verification model of multivec (word2vecpp-legacy):                     *)
(*   src/multivec/monolingual.cpp  vocabulary, Huffman tree, chunking,      *)
(*                                 training workers, kernels                *)
(*   src/multivec/distance.cpp     similarity queries                       *)
(*                                                                          *)
(* The module holds several specifications over one set of variables:       *)
(*   Spec       train(): chunkify and the trainChunk workers                *)
(*   SpecVocab  readVocab(): addWordToVocab, reduceVocab, createBinaryTree  *)
(*   SpecQuery  similarityNgrams, similaritySentence(Syntax)                *)
(*   SpecSGD    the training kernels and their locking                      *)
(*   SpecKernel sentVec and trainSentence on one thread                     *)
(*   SpecLookup wordVec, closest, softWER, dictionaryInduction              *)
(*   SpecTree   createBinaryTree, and again after a second readVocab        *)
(*   SpecTrainCall  train(file, initialize) from a new model                *)
(*   SpecCBOW   trainWordCBOW and negSamplingUpdate with weight values      *)
(*   SpecMapping  learnMapping: patience, alpha and the end of the loop     *)
(* Variables a specification does not use keep their idle value.            *)
(***************************************************************************)
EXTENDS Integers, Sequences, FiniteSets, TLC

VARIABLES
    config,           \* Config* const config (the fields the model reads)
    file,             \* the training file: a sequence of lines
    file_nl,          \* whether the last line of the file ends with '\n'
    chunks,           \* the offsets chunkify returned
    training_lines,   \* MonolingualModel::training_lines
    training_words,   \* MonolingualModel::training_words
    words_processed,  \* MonolingualModel::words_processed
    print_mutex,      \* multivec::print_mutex: NoThread or the holder
    worker,           \* per trainChunk thread: locals and position
    trained,          \* history: per worker the <<epoch, line>> pairs given to trainSentence
    corpus,           \* the tokens `infile >> word` yields in readVocab
    vocabulary,       \* unordered_map<string, HuffmanNode> vocabulary
    parent_nodes,     \* createBinaryTree: vector<HuffmanNode> parent_nodes
    tree_root,        \* createBinaryTree: heap.front() once the tree is built
    unigram_table,    \* per word the number of its entries in unigram_table
    vocab_word_count, \* MonolingualModel::vocab_word_count
    vocab_pc,         \* readVocab: the step reached, the tokens read, the calls made
    src_model,        \* a trained MonolingualModel (BilingualModel::src_model)
    trg_model,        \* BilingualModel::trg_model
    query,            \* the query call in progress: arguments and outcome
    weight_mutex,     \* input_weights_mutex, output_weights_mutex: NoThread or the holder
    sgd,              \* per training thread: its sentence and its place in the kernel
    modified,         \* the rows of the weight matrices written since the start
    net,              \* the weight matrices: their rows and whether training wrote them
    train_pc          \* train(): the step reached, the arguments, the state at the call

trainVars == <<file, file_nl, chunks, training_lines, training_words,
               words_processed, print_mutex, worker, trained>>
vocabVars == <<corpus, vocabulary, parent_nodes, tree_root, unigram_table,
               vocab_word_count, vocab_pc>>

queryVars == <<src_model, trg_model, query>>

sgdVars == <<weight_mutex, sgd, modified>>

netVars == <<net, train_pc>>

vars == <<config, trainVars, vocabVars, queryVars, sgdVars, netVars>>

\* what the actions of one specification leave alone
NotTrain == <<vocabVars, queryVars, sgdVars, netVars>>
NotVocab == <<trainVars, queryVars, sgdVars, netVars>>
NotQuery == <<trainVars, vocabVars, sgdVars, netVars>>
NotSGD == <<trainVars, vocabVars, queryVars, netVars>>

(***************************************************************************)
(* Bounds                                                                   *)
(***************************************************************************)
MaxLines == 3
MaxThreads == 2
MaxIterations == 2
MaxTokens == 4        \* tokens in the file readVocab reads
MaxMinCount == 2      \* config->min_count ranges over 0..MaxMinCount
MaxCalls == 2         \* calls of readVocab on one model
MaxSeq == 2           \* tokens in a sequence given to a query
MaxTagged == 2        \* tokens in a tagged sequence (one less on the second side)
MaxSgdThreads == 2    \* threads that run the training kernels
MaxNegative == 1      \* config->negative ranges over 0..MaxNegative in the kernels
MaxCount == 3         \* the largest count of a term the Huffman tree is built on
MaxCbowLen == 3       \* tokens in the sentence given to trainWordCBOW
MaxDraws == 2         \* config->negative ranges over 0..MaxDraws in trainWordCBOW
MaxFileWords == 2     \* tokens (one on each line) in the file given to train()
MaxKernelLen == 2     \* tokens in the sentence given to sentVec or trainSentence
MaxClosest == 3       \* the n of closest(word, n) ranges over 0..MaxClosest
MaxWer == 2           \* tokens in the hypothesis and in the reference of softWER
MaxDictThreads == 3   \* config->threads of dictionaryInduction
MaxPairs == 1         \* pairs in the dictionary given to learnMapping
MaxLoss == 2          \* the largest loss of an epoch of learnMapping, in epsilons
MaxDict == 3          \* words in the source and target lists of dictionaryInduction

(***************************************************************************)
(* Program constants                                                        *)
(***************************************************************************)
ProgressWords == 10000     \* if (word_count >= 10000)
AlphaScale == 10000        \* alpha is counted in units of starting_alpha * 0.0001
UNIGRAM_TABLE_SIZE == 100000   \* entries of the unigram table

NoThread == -1

RECURSIVE SumFun(_, _)
SumFun(f, S) ==
    \* the sum of f[x] over x in S
    IF S = {} THEN 0
    ELSE LET x == CHOOSE y \in S : TRUE
         IN f[x] + SumFun(f, S \ {x})

DefaultConfig ==
    [threads |-> 1, iterations |-> 1, sync_sgd |-> FALSE, min_count |-> 1,
     dimension |-> 2, negative |-> 0, hierarchical_softmax |-> FALSE,
     skip_gram |-> FALSE, sent_vector |-> FALSE, window_size |-> 1,
     no_average |-> FALSE]

(***************************************************************************)
(* The training file.  A line is [tok |-> number of whitespace separated    *)
(* tokens, voc |-> how many of them are in the vocabulary]; every token is  *)
(* one byte, tokens are separated by one blank.                             *)
(***************************************************************************)
LineKinds ==
    { [tok |-> 0, voc |-> 0],
      [tok |-> 6000, voc |-> 5000],
      [tok |-> 10000, voc |-> 10000] }

LineBytes(l) == IF l.tok = 0 THEN 0 ELSE 2 * l.tok - 1

RECURSIVE LineStartOf(_, _, _)
LineStartOf(f, nl, i) ==
    \* byte offset of the start of line i (0-based); i = Len(f) is the end of file
    IF i = 0 THEN 0
    ELSE LineStartOf(f, nl, i - 1) + LineBytes(f[i])
         + (IF i = Len(f) /\ ~nl THEN 0 ELSE 1)

LineStart(i) == LineStartOf(file, file_nl, i)
FileSize == LineStart(Len(file))

LineAt(f, nl, p) ==
    \* the 0-based index of the line that starts at byte p
    CHOOSE i \in 0..(Len(f) - 1) : LineStartOf(f, nl, i) = p

(***************************************************************************)
(* std::ifstream as the code uses it: position, eofbit, failbit.            *)
(***************************************************************************)
OpenStream == [pos |-> 0, eof |-> FALSE, fail |-> FALSE]

\* std::getline(infile, line): ok, the index of the line read, the stream after
Getline(f, nl, s) ==
    IF s.eof \/ s.fail
    THEN [ok |-> FALSE, erased |-> FALSE, line |-> -1,
          stream |-> [s EXCEPT !.fail = TRUE]]
    ELSE IF s.pos >= LineStartOf(f, nl, Len(f))
    THEN [ok |-> FALSE, erased |-> TRUE, line |-> -1,
          stream |-> [s EXCEPT !.eof = TRUE, !.fail = TRUE]]
    ELSE LET i == LineAt(f, nl, s.pos)
         IN IF i = Len(f) - 1 /\ ~nl
            THEN [ok |-> TRUE, erased |-> TRUE, line |-> i,
                  stream |-> [s EXCEPT !.pos = LineStartOf(f, nl, Len(f)),
                                       !.eof = TRUE]]
            ELSE [ok |-> TRUE, erased |-> TRUE, line |-> i,
                  stream |-> [s EXCEPT !.pos = LineStartOf(f, nl, i + 1)]]

\* infile.tellg(): -1 (and failbit) once the stream is not good
Tellg(s) ==
    IF s.eof \/ s.fail
    THEN [val |-> -1, stream |-> [s EXCEPT !.fail = TRUE]]
    ELSE [val |-> s.pos, stream |-> s]

\* infile.clear(); infile.seekg(off, infile.beg)
Seekg(s, off) == [pos |-> off, eof |-> FALSE, fail |-> FALSE]

(***************************************************************************)
(* chunkify(filename, n_chunks)                                             *)
(***************************************************************************)
RECURSIVE ChunkifyScan(_, _, _, _, _, _)
ChunkifyScan(f, nl, s, line, positions, words) ==
    \* do { line_positions.push_back(tellg); words += split(line).size(); }
    \* while (getline(infile, line));  words += split(line).size();
    \* `line` is the token count of the string variable line
    LET t  == Tellg(s)
        p2 == Append(positions, t.val)
        w2 == words + line
        g  == Getline(f, nl, t.stream)
        l2 == IF g.ok THEN f[g.line + 1].tok
              ELSE IF g.erased THEN 0 ELSE line
    IN IF g.ok
       THEN ChunkifyScan(f, nl, g.stream, l2, p2, w2)
       ELSE [line_positions |-> p2, words |-> w2 + l2]

Chunkify(f, nl, n_chunks) ==
    LET scan == ChunkifyScan(f, nl, OpenStream, 0, <<>>, 0)
        lines == Len(scan.line_positions) - 1
        chunk_size == lines \div n_chunks
    IN [training_lines |-> lines,
        training_words |-> scan.words,
        chunks |-> [i \in 1..n_chunks |->
                       scan.line_positions[(i - 1) * chunk_size + 1]]]

(***************************************************************************)
(* Idle values of the variables a specification does not use                *)
(***************************************************************************)
NoNode == [leaf |-> TRUE, word |-> "", at |-> 0]
EmptyMap == [x \in {} |-> 0]

VocabIdle ==
    /\ corpus = <<>>
    /\ vocabulary = EmptyMap
    /\ parent_nodes = <<>>
    /\ tree_root = NoNode
    /\ unigram_table = EmptyMap
    /\ vocab_word_count = 0
    /\ vocab_pc = [at |-> "idle", read |-> 0, calls |-> 0, cleared |-> {}]

NoQuery == [op |-> "none"]

QueryIdle ==
    /\ src_model = EmptyMap
    /\ trg_model = EmptyMap
    /\ query = NoQuery

SGDIdle ==
    /\ weight_mutex = EmptyMap
    /\ sgd = EmptyMap
    /\ modified = {}

\* mat() of no rows; no call of train() made
NoNet == [rows |-> 0, sent_rows |-> 0, trained |-> FALSE]
NoCall == [at |-> "idle", calls |-> 0]

NetIdle ==
    /\ net = NoNet
    /\ train_pc = NoCall

TrainIdle ==
    /\ file = <<>>
    /\ file_nl = TRUE
    /\ chunks = <<>>
    /\ training_lines = 0
    /\ training_words = 0
    /\ words_processed = 0
    /\ print_mutex = NoThread
    /\ worker = <<>>
    /\ trained = <<>>

(***************************************************************************)
(* train(): the state once chunkify has run and the workers are started.    *)
(***************************************************************************)
ChunkIds == 0..(config.threads - 1)

Files ==
    UNION { [1..n -> LineKinds] : n \in 1..MaxLines }

NewWorker ==
    [pc |-> "epoch", k |-> 0, stream |-> OpenStream, word_count |-> 0,
     sent_id |-> 0, alpha |-> AlphaScale, tmp |-> 0]

Init ==
    /\ NetIdle
    /\ config \in { [DefaultConfig EXCEPT !.threads = n, !.iterations = it,
                                          !.sync_sgd = sy, !.sent_vector = sv] :
                      n \in 1..MaxThreads, it \in 1..MaxIterations,
                      sy \in BOOLEAN, sv \in BOOLEAN }
    /\ file \in Files
    /\ file_nl \in BOOLEAN
    /\ (~file_nl => file[Len(file)].tok > 0)
    /\ LET c == Chunkify(file, file_nl, config.threads)
       IN /\ chunks = c.chunks
          /\ training_lines = c.training_lines
          /\ training_words = c.training_words
    /\ words_processed = 0
    /\ print_mutex = NoThread
    /\ worker = [w \in ChunkIds |-> NewWorker]
    /\ trained = [w \in ChunkIds |-> <<>>]
    /\ VocabIdle
    /\ QueryIdle
    /\ SGDIdle

(***************************************************************************)
(* trainChunk(training_file, chunks, chunk_id), one action per step of a    *)
(* worker that another worker can observe.                                  *)
(***************************************************************************)
\* int trainSentence(sent, sent_vec, alpha): the number of in-vocabulary words
TrainSentence(line) == file[line + 1].voc

\* alpha = starting_alpha * (1 - words_processed / (max_iterations * training_words)),
\* not below starting_alpha * 0.0001
DecayedAlpha(wp) ==
    LET a == AlphaScale - (AlphaScale * wp) \div (config.iterations * training_words)
    IN IF a < 1 THEN 1 ELSE a

\* if (chunk_id < chunks.size() - 1 && infile.tellg() >= chunks[chunk_id + 1]) break;
ChunkEnd(w, s) ==
    IF w < Len(chunks) - 1
    THEN LET t == Tellg(s)
         IN [brk |-> t.val >= chunks[w + 2], stream |-> t.stream]
    ELSE [brk |-> FALSE, stream |-> s]

\* for (int k = 0; k < max_iterations; ++k) { word_count = 0; clear; seekg; sent_id = ... }
EpochStart(w) ==
    /\ worker[w].pc = "epoch"
    /\ IF worker[w].k < config.iterations
       THEN worker' = [worker EXCEPT
                ![w].pc = "read",
                ![w].word_count = 0,
                ![w].stream = Seekg(worker[w].stream, chunks[w + 1]),
                ![w].sent_id = w * (training_lines \div Len(chunks))]
       ELSE worker' = [worker EXCEPT ![w].pc = "done"]
    /\ UNCHANGED <<config, file, file_nl, chunks, training_lines, training_words,
                   words_processed, print_mutex, trained, NotTrain>>

\* while (getline(infile, sent)) { word_count += trainSentence(...); sent_id++; ... }
TrainLine(w) ==
    /\ worker[w].pc = "read"
    /\ LET g == Getline(file, file_nl, worker[w].stream)
       IN IF ~g.ok
          THEN /\ worker' = [worker EXCEPT ![w].pc = "flush", ![w].stream = g.stream]
               /\ UNCHANGED trained
          ELSE LET wc == worker[w].word_count + TrainSentence(g.line)
                   e  == ChunkEnd(w, g.stream)
               IN /\ trained' = [trained EXCEPT
                                    ![w] = Append(@, <<worker[w].k, g.line>>)]
                  /\ IF wc >= ProgressWords
                     THEN worker' = [worker EXCEPT
                              ![w].pc = "lock", ![w].stream = g.stream,
                              ![w].word_count = wc, ![w].sent_id = @ + 1]
                     ELSE worker' = [worker EXCEPT
                              ![w].pc = IF e.brk THEN "flush" ELSE "read",
                              ![w].stream = e.stream,
                              ![w].word_count = wc, ![w].sent_id = @ + 1]
    /\ UNCHANGED <<config, file, file_nl, chunks, training_lines, training_words,
                   words_processed, print_mutex, NotTrain>>

\* std::lock_guard<std::mutex> guard(multivec::print_mutex);
Lock(w) ==
    /\ worker[w].pc = "lock"
    /\ print_mutex = NoThread
    /\ print_mutex' = w
    /\ worker' = [worker EXCEPT ![w].pc = "add"]
    /\ UNCHANGED <<config, file, file_nl, chunks, training_lines, training_words,
                   words_processed, trained, NotTrain>>

\* words_processed += word_count on the plain long long: the load ...
LoadProcessed(w) ==
    /\ ~config.sync_sgd
    /\ worker[w].pc \in {"add", "flush"}
    /\ worker' = [worker EXCEPT
           ![w].tmp = words_processed,
           ![w].pc = IF worker[w].pc = "add" THEN "store" ELSE "flush_store"]
    /\ UNCHANGED <<config, file, file_nl, chunks, training_lines, training_words,
                   words_processed, print_mutex, trained, NotTrain>>

\* ... and the store; at the end of an epoch the loop goes on to ++k
StoreProcessed(w) ==
    /\ worker[w].pc \in {"store", "flush_store"}
    /\ words_processed' = worker[w].tmp + worker[w].word_count
    /\ IF worker[w].pc = "store"
       THEN worker' = [worker EXCEPT ![w].pc = "alpha", ![w].word_count = 0]
       ELSE worker' = [worker EXCEPT ![w].pc = "epoch", ![w].k = @ + 1]
    /\ UNCHANGED <<config, file, file_nl, chunks, training_lines, training_words,
                   print_mutex, trained, NotTrain>>

\* words_processed += word_count on std::atomic<long long> (SYNC_SGD)
AddProcessed(w) ==
    /\ config.sync_sgd
    /\ worker[w].pc \in {"add", "flush"}
    /\ words_processed' = words_processed + worker[w].word_count
    /\ IF worker[w].pc = "add"
       THEN worker' = [worker EXCEPT ![w].pc = "alpha", ![w].word_count = 0]
       ELSE worker' = [worker EXCEPT ![w].pc = "epoch", ![w].k = @ + 1]
    /\ UNCHANGED <<config, file, file_nl, chunks, training_lines, training_words,
                   print_mutex, trained, NotTrain>>

\* alpha = ...; the guard's scope ends; then the end-of-chunk test
UpdateAlpha(w) ==
    /\ worker[w].pc = "alpha"
    /\ LET e == ChunkEnd(w, worker[w].stream)
       IN worker' = [worker EXCEPT
              ![w].alpha = DecayedAlpha(words_processed),
              ![w].pc = IF e.brk THEN "flush" ELSE "read",
              ![w].stream = e.stream]
    /\ print_mutex' = NoThread
    /\ UNCHANGED <<config, file, file_nl, chunks, training_lines, training_words,
                   words_processed, trained, NotTrain>>

Next ==
    \E w \in ChunkIds :
        \/ EpochStart(w)
        \/ TrainLine(w)
        \/ Lock(w)
        \/ LoadProcessed(w)
        \/ StoreProcessed(w)
        \/ AddProcessed(w)
        \/ UpdateAlpha(w)

Spec == Init /\ [][Next]_vars

AllDone == \A w \in ChunkIds : worker[w].pc = "done"

(***************************************************************************)
(* Claims about train() and trainChunk                                      *)
(***************************************************************************)
\* how often line i was given to trainSentence by worker w in epoch k
TimesTrainedBy(w, k, i) ==
    Cardinality({ j \in DOMAIN trained[w] : trained[w][j] = <<k, i>> })

TimesTrained(k, i) ==
    SumFun([w \in ChunkIds |-> TimesTrainedBy(w, k, i)], ChunkIds)

\* the lines that start in [offset_w, offset_{w+1}), up to EOF for the last worker
ChunkLines(w) ==
    { i \in 0..(Len(file) - 1) :
        /\ LineStart(i) >= chunks[w + 1]
        /\ (w < Len(chunks) - 1 => LineStart(i) < chunks[w + 2]) }

Epochs == 0..(config.iterations - 1)

\* C1: once train is over, in every epoch worker w has trained exactly the
\* lines that start in its chunk [offset_w, offset_{w+1}) (the last worker up
\* to EOF), and every line of the file was trained by exactly one worker.
C1_EachLineByOneWorker ==
    AllDone =>
        /\ \A w \in ChunkIds : \A k \in Epochs : \A i \in 0..(Len(file) - 1) :
              TimesTrainedBy(w, k, i) = (IF i \in ChunkLines(w) THEN 1 ELSE 0)
        /\ \A k \in Epochs : \A i \in 0..(Len(file) - 1) : TimesTrained(k, i) = 1

\* a worker stands at, or is in the middle of, `words_processed += word_count`
WritesProcessed(w) == worker[w].pc \in {"add", "store", "flush", "flush_store"}

\* C2: with threads > 1, a worker that writes words_processed (at the
\* 10000-word boundary or at the end of an epoch) holds the progress lock.
C2_WritesUnderProgressLock ==
    config.threads > 1 =>
        \A w \in ChunkIds : WritesProcessed(w) => print_mutex = w

\* C4: words_processed never decreases, every worker's alpha never increases
\* and stays at or above starting_alpha * 0.0001 (one unit of AlphaScale).
C4_ProgressMonotone ==
    [][ /\ words_processed' >= words_processed
        /\ \A w \in ChunkIds :
              /\ worker'[w].alpha <= worker[w].alpha
              /\ worker'[w].alpha >= 1 ]_vars

\* the whitespace-separated tokens of the file
FileTokens == SumFun([i \in 1..Len(file) |-> file[i].tok], 1..Len(file))

\* C17: chunkify(file, N) returns N offsets, non-decreasing from offset 0,
\* the i-th being the byte offset of the start of line i * floor(L / N); it
\* sets training_lines to the number L of lines and training_words to the
\* number of tokens of the file, each counted once, whether or not the last
\* line ends with a newline.
C17_ChunkifyCounts ==
    LET L == Len(file)
        N == config.threads
    IN /\ Len(chunks) = N
       /\ chunks[1] = 0
       /\ \A i \in 1..(N - 1) : chunks[i] <= chunks[i + 1]
       /\ \A i \in 1..N : chunks[i] = LineStart((i - 1) * (L \div N))
       /\ training_lines = L
       /\ training_words = FileTokens

\* the tokens of the file that are in the vocabulary
VocabularyTokens == SumFun([i \in 1..Len(file) |-> file[i].voc], 1..Len(file))

\* C25: when train returns, for every number of threads and every
\* interleaving of the workers, words_processed is iterations times the
\* number of tokens of the file that are in the vocabulary.
C25_WordsProcessedTotal ==
    AllDone => words_processed = config.iterations * VocabularyTokens

\* the lines worker w has given to trainSentence
LinesTrainedBy(w) == { trained[w][j][2] : j \in DOMAIN trained[w] }

\* C26: with sent_vector on, the sent_id a worker uses for a line is the
\* zero-based position of that line in the file and lies in
\* 0 .. training_lines - 1, and no two workers train the same row of
\* sent_weights.
C26_SentIdIsLinePosition ==
    [][ config.sent_vector =>
          /\ \A w \in ChunkIds :
                Len(trained'[w]) > Len(trained[w]) =>
                    /\ worker[w].sent_id = trained'[w][Len(trained'[w])][2]
                    /\ worker[w].sent_id >= 0
                    /\ worker[w].sent_id < training_lines
          /\ \A w1, w2 \in ChunkIds :
                w1 # w2 => LinesTrainedBy(w1)' \cap LinesTrainedBy(w2)' = {} ]_vars

(***************************************************************************)
(* Vocabulary: addWordToVocab, reduceVocab, readVocab                       *)
(***************************************************************************)
Words == {"a", "b", "c"}

Corpora == UNION { [1..n -> Words] : n \in 0..MaxTokens }

\* the orders in which an unordered_map with key set S can be iterated
Orders(S) ==
    { s \in [1..Cardinality(S) -> S] :
        \A i, j \in 1..Cardinality(S) : i # j => s[i] # s[j] }

\* HuffmanNode(int index, const string& word): a leaf, counted once
HuffmanLeaf(index, word) ==
    [index |-> index, word |-> word, count |-> 1, is_leaf |-> TRUE,
     code |-> <<>>, parents |-> <<>>]

AddWordToVocab_NoIncrement(voc, word) ==
    IF word \in DOMAIN voc
    THEN voc
    ELSE [x \in DOMAIN voc \cup {word} |->
            IF x = word THEN HuffmanLeaf(Cardinality(DOMAIN voc), word)
            ELSE voc[x]]

AddWordToVocab(voc, word) ==
    IF word \in DOMAIN voc
    THEN [voc EXCEPT ![word].count = @ + 1]
    ELSE [x \in DOMAIN voc \cup {word} |->
            IF x = word THEN HuffmanLeaf(Cardinality(DOMAIN voc), word)
            ELSE voc[x]]

RECURSIVE ReduceLoop(_, _, _, _, _)
ReduceLoop(voc, order, pos, i, min_count) ==
    \* for (it = begin; it != end; ) { erase(it++) or it++->second.index = i++ }
    IF pos > Len(order) THEN voc
    ELSE LET w == order[pos]
         IN IF voc[w].count < min_count
            THEN ReduceLoop([x \in DOMAIN voc \ {w} |-> voc[x]],
                            order, pos + 1, i, min_count)
            ELSE ReduceLoop([voc EXCEPT ![w].index = i],
                            order, pos + 1, i + 1, min_count)

ReduceVocab_KeepIndex(voc, order, min_count) ==
    [x \in { w \in DOMAIN voc : voc[w].count >= min_count } |-> voc[x]]

ReduceVocab(voc, order, min_count) ==
    ReduceLoop(voc, order, 1, 0, min_count)

(***************************************************************************)
(* Huffman tree: createBinaryTree, assignCodes.  A HuffmanNode* is          *)
(* [leaf |-> TRUE, word] for &vocabulary[word] and [leaf |-> FALSE, at] for *)
(* &parent_nodes[at - 1].                                                   *)
(***************************************************************************)
LeafRef(word) == [leaf |-> TRUE, word |-> word, at |-> 0]
ParentRef(at) == [leaf |-> FALSE, word |-> "", at |-> at]

NodeCount(voc, pn, ref) ==
    IF ref.leaf THEN voc[ref.word].count ELSE pn[ref.at].count

\* HuffmanNode::comp(v1, v2): orders the heap by count, largest first
HuffmanComp(c1, c2) == c1 > c2

\* HuffmanNode(int index, HuffmanNode* left, HuffmanNode* right)
HuffmanParent(voc, pn, index, left, right) ==
    [index |-> index, left |-> left, right |-> right, is_leaf |-> FALSE,
     count |-> NodeCount(voc, pn, left) + NodeCount(voc, pn, right)]

\* std::sort(heap.begin(), heap.end(), HuffmanNode::comp) of the leaves, which
\* come in the map's iteration order: any arrangement sorted under comp
SortedHeaps(voc) ==
    { [i \in 1..Len(o) |-> LeafRef(o[i])] : o \in
        { o \in Orders(DOMAIN voc) :
            \A i, j \in 1..Len(o) :
                i < j => ~HuffmanComp(voc[o[j]].count, voc[o[i]].count) } }

\* lower_bound(heap.begin(), heap.end(), parent, HuffmanNode::comp)
LowerBound(voc, pn, heap, cnt) ==
    CHOOSE p \in 1..(Len(heap) + 1) :
        /\ \A q \in 1..(p - 1) : HuffmanComp(NodeCount(voc, pn, heap[q]), cnt)
        /\ (p <= Len(heap) => ~HuffmanComp(NodeCount(voc, pn, heap[p]), cnt))

InsertAt(seq, p, x) ==
    SubSeq(seq, 1, p - 1) \o <<x>> \o SubSeq(seq, p, Len(seq))

RECURSIVE BuildTree_IndexFromOne(_, _, _, _)
BuildTree_IndexFromOne(voc, heap, pn, i) ==
    IF Len(heap) <= 1 THEN [heap |-> heap, parent_nodes |-> pn]
    ELSE LET left  == heap[Len(heap)]
             right == heap[Len(heap) - 1]
             rest  == SubSeq(heap, 1, Len(heap) - 2)
             pn2   == Append(pn, HuffmanParent(voc, pn, i + 1, left, right))
             par   == ParentRef(Len(pn2))
             p     == LowerBound(voc, pn2, rest, pn2[Len(pn2)].count)
         IN BuildTree_IndexFromOne(voc, InsertAt(rest, p, par), pn2, i + 1)

RECURSIVE BuildTree(_, _, _, _)
BuildTree(voc, heap, pn, i) ==
    \* for (int i = 0; heap.size() > 1; i++) { ... }
    IF Len(heap) <= 1 THEN [heap |-> heap, parent_nodes |-> pn]
    ELSE LET left  == heap[Len(heap)]
             right == heap[Len(heap) - 1]
             rest  == SubSeq(heap, 1, Len(heap) - 2)
             pn2   == Append(pn, HuffmanParent(voc, pn, i, left, right))
             par   == ParentRef(Len(pn2))
             p     == LowerBound(voc, pn2, rest, pn2[Len(pn2)].count)
         IN BuildTree(voc, InsertAt(rest, p, par), pn2, i + 1)

RECURSIVE AssignCodes_Swapped(_, _, _, _, _)
AssignCodes_Swapped(voc, pn, node, code, parents) ==
    IF node.leaf
    THEN [voc EXCEPT ![node.word].code = code, ![node.word].parents = parents]
    ELSE LET n  == pn[node.at]
             ps == Append(parents, n.index)
             v1 == AssignCodes_Swapped(voc, pn, n.left, Append(code, 1), ps)
         IN AssignCodes_Swapped(v1, pn, n.right, Append(code, 0), ps)

RECURSIVE AssignCodes(_, _, _, _, _)
AssignCodes(voc, pn, node, code, parents) ==
    IF node.leaf
    THEN [voc EXCEPT ![node.word].code = code, ![node.word].parents = parents]
    ELSE LET n  == pn[node.at]
             ps == Append(parents, n.index)
             v1 == AssignCodes(voc, pn, n.left, Append(code, 0), ps)
         IN AssignCodes(v1, pn, n.right, Append(code, 1), ps)

(***************************************************************************)
(* initUnigramTable.  pow(count, 0.75) is tabulated in thousandths for the  *)
(* counts the model reaches.                                                *)
(***************************************************************************)
Pow75(c) ==
    CASE c = 0 -> 0
      [] c = 1 -> 1000
      [] c = 2 -> 1682
      [] c = 3 -> 2280
      [] c = 4 -> 2828
      [] c = 5 -> 3344
      [] OTHER -> 3834

UnigramEntries(voc, word) ==
    \* static_cast<int>(pow(count, power) / total_count * UNIGRAM_TABLE_SIZE)
    LET total == SumFun([w \in DOMAIN voc |-> Pow75(voc[w].count)], DOMAIN voc)
    IN (Pow75(voc[word].count) * UNIGRAM_TABLE_SIZE) \div total

(***************************************************************************)
(* readVocab(training_file), one action per call it makes                   *)
(***************************************************************************)
InitVocab ==
    /\ NetIdle
    /\ config \in { [DefaultConfig EXCEPT !.min_count = m] : m \in 0..MaxMinCount }
    /\ VocabIdle
    /\ TrainIdle
    /\ QueryIdle
    /\ SGDIdle

\* ifstream infile(training_file); ...; vocabulary.clear();
ReadVocabOpen ==
    /\ vocab_pc.at \in {"idle", "done"}
    /\ vocab_pc.calls < MaxCalls
    /\ \E c \in Corpora : corpus' = c
    /\ vocabulary' = EmptyMap
    /\ vocab_pc' = [vocab_pc EXCEPT !.at = "scan", !.read = 0,
                                    !.cleared = DOMAIN vocabulary]
    /\ UNCHANGED <<config, parent_nodes, tree_root, unigram_table,
                   vocab_word_count, NotVocab>>

\* while (infile >> word) addWordToVocab(word);
AddWord ==
    /\ vocab_pc.at = "scan"
    /\ vocab_pc.read < Len(corpus)
    /\ vocabulary' = AddWordToVocab(vocabulary, corpus[vocab_pc.read + 1])
    /\ vocab_pc' = [vocab_pc EXCEPT !.read = @ + 1]
    /\ UNCHANGED <<config, corpus, parent_nodes, tree_root, unigram_table,
                   vocab_word_count, NotVocab>>

\* reduceVocab();
DoReduceVocab ==
    /\ vocab_pc.at = "scan"
    /\ vocab_pc.read = Len(corpus)
    /\ \E order \in Orders(DOMAIN vocabulary) :
           vocabulary' = ReduceVocab(vocabulary, order, config.min_count)
    /\ vocab_pc' = [vocab_pc EXCEPT !.at = "reduced"]
    /\ UNCHANGED <<config, corpus, parent_nodes, tree_root, unigram_table,
                   vocab_word_count, NotVocab>>

\* createBinaryTree(); on an empty vocabulary heap.front() reads through the
\* null begin() of a vector that never allocated: the process dies
CreateBinaryTree ==
    /\ vocab_pc.at = "reduced"
    /\ IF DOMAIN vocabulary = {}
       THEN /\ vocab_pc' = [vocab_pc EXCEPT !.at = "crashed"]
            /\ UNCHANGED <<vocabulary, parent_nodes, tree_root>>
       ELSE \E heap \in SortedHeaps(vocabulary) :
               LET t == BuildTree(vocabulary, heap, <<>>, 0)
               IN /\ parent_nodes' = t.parent_nodes
                  /\ tree_root' = t.heap[1]
                  /\ vocabulary' = AssignCodes(vocabulary, t.parent_nodes,
                                               t.heap[1], <<>>, <<>>)
                  /\ vocab_pc' = [vocab_pc EXCEPT !.at = "coded"]
    /\ UNCHANGED <<config, corpus, unigram_table, vocab_word_count, NotVocab>>

\* initUnigramTable();
InitUnigramTable ==
    /\ vocab_pc.at = "coded"
    /\ vocab_word_count' =
           SumFun([w \in DOMAIN vocabulary |-> vocabulary[w].count],
                  DOMAIN vocabulary)
    /\ unigram_table' =
           [w \in DOMAIN vocabulary |-> UnigramEntries(vocabulary, w)]
    /\ vocab_pc' = [vocab_pc EXCEPT !.at = "done", !.calls = @ + 1]
    /\ UNCHANGED <<config, corpus, vocabulary, parent_nodes, tree_root, NotVocab>>

NextVocab ==
    \/ ReadVocabOpen
    \/ AddWord
    \/ DoReduceVocab
    \/ CreateBinaryTree
    \/ InitUnigramTable

SpecVocab == InitVocab /\ [][NextVocab]_vars

(***************************************************************************)
(* The Huffman tree on its own: createBinaryTree on a counted vocabulary,   *)
(* and again after readVocab has read the same file a second time.          *)
(***************************************************************************)
TreeWords == {"a", "b", "c", "d"}

\* the leaves of the terms S with counts cnt, indexed in the order `order`
CountedVocabulary(S, cnt, order) ==
    [w \in S |->
        [HuffmanLeaf(CHOOSE i \in 0..(Len(order) - 1) : order[i + 1] = w, w)
            EXCEPT !.count = cnt[w]]]

\* the vocabularies reduceVocab can leave: up to four terms, counts up to
\* MaxCount, the indices in one of the orders
TreeVocabularies ==
    { CountedVocabulary(S, cnt, CHOOSE o \in Orders(S) : TRUE) :
        S \in SUBSET TreeWords, cnt \in [TreeWords -> 1..MaxCount] }

\* code and parents of every term
Codes(voc) == [w \in DOMAIN voc |-> [code |-> voc[w].code, parents |-> voc[w].parents]]

InitTree ==
    /\ NetIdle
    /\ config = DefaultConfig
    /\ corpus = <<>>
    /\ vocabulary \in TreeVocabularies
    /\ parent_nodes = <<>>
    /\ tree_root = NoNode
    /\ unigram_table = EmptyMap
    /\ vocab_word_count = 0
    /\ vocab_pc = [at |-> "reduced", read |-> 0, calls |-> 0, cleared |-> {},
                   first |-> EmptyMap]
    /\ TrainIdle
    /\ QueryIdle
    /\ SGDIdle

\* readVocab on the same file once more, up to and including reduceVocab: the
\* same terms and counts, fresh leaves, indices in the map's iteration order;
\* first keeps the codes of the build before
ReadVocabAgain ==
    /\ vocab_pc.at = "coded"
    /\ vocab_pc.calls < 1
    /\ \E order \in Orders(DOMAIN vocabulary) :
          vocabulary' = CountedVocabulary(DOMAIN vocabulary,
                            [w \in DOMAIN vocabulary |-> vocabulary[w].count], order)
    /\ parent_nodes' = <<>>
    /\ tree_root' = NoNode
    /\ vocab_pc' = [vocab_pc EXCEPT !.at = "reduced", !.calls = @ + 1,
                                    !.cleared = DOMAIN vocabulary,
                                    !.first = Codes(vocabulary)]
    /\ UNCHANGED <<config, corpus, unigram_table, vocab_word_count, NotVocab>>

NextTree ==
    \/ CreateBinaryTree
    \/ ReadVocabAgain

SpecTree == InitTree /\ [][NextTree]_vars

(***************************************************************************)
(* Claims about the vocabulary and the Huffman tree                         *)
(***************************************************************************)
VocabSize == Cardinality(DOMAIN vocabulary)

\* the number of occurrences of t in the file
Occurrences(t) == Cardinality({ i \in DOMAIN corpus : corpus[i] = t })

\* C5: after reduceVocab the indices of the retained entries are pairwise
\* distinct and are exactly 0 .. V-1, and every retained entry has
\* count >= min_count.
C5_ReducedIndicesDense ==
    vocab_pc.at \in {"reduced", "coded", "done"} =>
        /\ { vocabulary[w].index : w \in DOMAIN vocabulary } = 0..(VocabSize - 1)
        /\ \A w1, w2 \in DOMAIN vocabulary :
              w1 # w2 => vocabulary[w1].index # vocabulary[w2].index
        /\ \A w \in DOMAIN vocabulary : vocabulary[w].count >= config.min_count

\* reduceVocab has just erased an entry that was inserted before one it kept
C5_Witness ==
    /\ vocab_pc.at = "reduced"
    /\ \E i, j \in DOMAIN corpus :
          /\ i < j
          /\ corpus[i] \notin DOMAIN vocabulary
          /\ corpus[j] \in DOMAIN vocabulary
          /\ \A h \in 1..(j - 1) : corpus[h] # corpus[j]

\* C6: after readVocab the vocabulary holds exactly the terms of the file
\* that occur at least min_count times, each with its number of occurrences
\* as count; nothing of the previous vocabulary is left.
C6_VocabIsFrequentTerms ==
    vocab_pc.at = "done" =>
        /\ DOMAIN vocabulary =
              { t \in Words : Occurrences(t) >= 1
                              /\ Occurrences(t) >= config.min_count }
        /\ \A t \in DOMAIN vocabulary :
              /\ vocabulary[t].count = Occurrences(t)
              /\ vocabulary[t].word = t

\* a second readVocab dropped a term of the previous vocabulary, pruned a
\* rare term and kept a term that occurs more than once
C6_Witness ==
    /\ vocab_pc.at = "done"
    /\ vocab_pc.calls = 2
    /\ vocab_pc.cleared \ DOMAIN vocabulary # {}
    /\ \E t \in Words : Occurrences(t) >= 1 /\ t \notin DOMAIN vocabulary
    /\ \E t \in DOMAIN vocabulary : vocabulary[t].count >= 2

\* walk from node along code: left child on 0, right child on 1
RECURSIVE WalkTree(_, _, _)
WalkTree(pn, node, code) ==
    IF code = <<>> THEN [visited |-> <<>>, end |-> node]
    ELSE IF node.leaf THEN [visited |-> <<-1>>, end |-> NoNode]
    ELSE LET n == pn[node.at]
             r == WalkTree(pn, IF Head(code) = 0 THEN n.left ELSE n.right,
                           Tail(code))
         IN [visited |-> <<n.index>> \o r.visited, end |-> r.end]

\* C7: after createBinaryTree every leaf has len(code) = len(parents), and
\* the walk from the root along its code (left on 0, right on 1) visits
\* exactly the internal nodes listed in parents, in that order, and ends
\* at the leaf.
C7_CodeLeadsToLeaf ==
    vocab_pc.at \in {"coded", "done"} =>
        \A w \in DOMAIN vocabulary :
            LET n == vocabulary[w]
                walk == WalkTree(parent_nodes, tree_root, n.code)
            IN /\ Len(n.code) = Len(n.parents)
               /\ walk.visited = n.parents
               /\ walk.end = LeafRef(w)

\* a tree of three leaves: one leaf at depth 1, another at depth 2
C7_Witness ==
    /\ vocab_pc.at = "coded"
    /\ VocabSize = 3
    /\ \E w1, w2 \in DOMAIN vocabulary :
          Len(vocabulary[w1].code) = 1 /\ Len(vocabulary[w2].code) = 2

\* the leaves below node
RECURSIVE LeavesUnder(_, _)
LeavesUnder(pn, node) ==
    IF node.leaf THEN {node.word}
    ELSE LeavesUnder(pn, pn[node.at].left) \cup LeavesUnder(pn, pn[node.at].right)

\* initNet: output_weights_hs = mat(vocabulary.size(), vec(dimension))
HsRows == VocabSize

\* C18: createBinaryTree on V >= 1 terms creates exactly V-1 internal nodes,
\* the k-th created (k = 0..V-2) with index k; every entry of every leaf's
\* parents lies in 0..V-2 and is a row of the V-row output_weights_hs; each
\* internal node has two distinct children, each a leaf of the vocabulary or
\* a node created before it; every leaf is reachable from the root.
C18_TreeShape ==
    vocab_pc.at = "coded" =>
        /\ Len(parent_nodes) = VocabSize - 1
        /\ \A k \in 1..Len(parent_nodes) :
              LET n == parent_nodes[k]
              IN /\ n.index = k - 1
                 /\ n.left # n.right
                 /\ \A c \in {n.left, n.right} :
                       IF c.leaf THEN c.word \in DOMAIN vocabulary
                       ELSE c.at \in 1..(k - 1)
        /\ \A w \in DOMAIN vocabulary :
              \A i \in 1..Len(vocabulary[w].parents) :
                 /\ vocabulary[w].parents[i] \in 0..(VocabSize - 2)
                 /\ vocabulary[w].parents[i] < HsRows
        /\ LeavesUnder(parent_nodes, tree_root) = DOMAIN vocabulary

\* four terms coded, one of them below all three internal nodes
C18_Witness ==
    /\ vocab_pc.at = "coded"
    /\ VocabSize = 4
    /\ Len(parent_nodes) = 3
    /\ \E w \in DOMAIN vocabulary : Len(vocabulary[w].parents) = 3

\* a term of larger count has a code that is no longer
CodeLengthOrder ==
    \A a, b \in DOMAIN vocabulary :
        vocabulary[a].count > vocabulary[b].count =>
            Len(vocabulary[a].code) <= Len(vocabulary[b].code)

\* the second build gave every term the code and parents of the first
RebuildSameCodes == Codes(vocabulary) = vocab_pc.first

\* C19: in the codes built by createBinaryTree a term of larger count has a
\* code that is no longer, and building the tree a second time from the same
\* terms and counts gives every term the same code and parents.
C19_CodesDeterministic ==
    vocab_pc.at = "coded" =>
        /\ CodeLengthOrder
        /\ vocab_pc.calls = 1 => RebuildSameCodes

(***************************************************************************)
(* train(training_file, initialize) on a model the constructor has just     *)
(* made, and again.  The constructor initialises config alone: the scalar   *)
(* members start with whatever their storage holds.                         *)
(***************************************************************************)
\* the values an uninitialised long long member is read with: zero or not
Uninitialized == {0, 4096}

\* the files given to train(): one token on each line, the last line ended
TrainWords == {"a", "b"}
TrainFiles == UNION { [1..n -> TrainWords] : n \in 1..MaxFileWords }

\* while (infile >> word) addWordToVocab(word);
RECURSIVE ReadWords(_, _, _)
ReadWords(voc, c, i) ==
    IF i > Len(c) THEN voc
    ELSE ReadWords(AddWordToVocab(voc, c[i]), c, i + 1)

\* the lines of the file of tokens c, as trainChunk meets them under voc
FileLines(c, voc) ==
    [i \in 1..Len(c) |->
        [tok |-> 1, voc |-> IF c[i] \in DOMAIN voc THEN 1 ELSE 0]]

\* the training state train() works on
TrainingState ==
    [words_processed |-> words_processed, training_lines |-> training_lines,
     training_words |-> training_words, net |-> net]

InitTrainCall ==
    /\ config \in { [DefaultConfig EXCEPT !.sent_vector = sv, !.min_count = m] :
                      sv \in BOOLEAN, m \in 1..MaxMinCount }
    /\ file = <<>>
    /\ file_nl = TRUE
    /\ chunks = <<>>
    /\ training_lines \in Uninitialized
    /\ training_words \in Uninitialized
    /\ words_processed \in Uninitialized
    /\ print_mutex = NoThread
    /\ worker = <<>>
    /\ trained = <<>>
    /\ corpus = <<>>
    /\ vocabulary = EmptyMap
    /\ parent_nodes = <<>>
    /\ tree_root = NoNode
    /\ unigram_table = EmptyMap
    /\ vocab_word_count \in Uninitialized
    /\ vocab_pc = [at |-> "idle", read |-> 0, calls |-> 0, cleared |-> {}]
    /\ net = NoNet
    /\ train_pc = [at |-> "idle", calls |-> 0, initialize |-> FALSE,
                   built |-> FALSE, before |-> TrainingState]
    /\ QueryIdle
    /\ SGDIdle

\* words_processed = 0; chunkify(training_file, config->threads);
\* if (config->sent_vector) initSentWeights();
StartTraining(c, voc, rows, wrote, initialize) ==
    LET ch == Chunkify(FileLines(c, voc), TRUE, config.threads)
    IN /\ file' = FileLines(c, voc)
       /\ words_processed' = 0
       /\ training_lines' = ch.training_lines
       /\ training_words' = ch.training_words
       /\ chunks' = ch.chunks
       /\ net' = [rows |-> rows,
                  sent_rows |-> IF config.sent_vector THEN ch.training_lines
                                ELSE net.sent_rows,
                  trained |-> wrote]
       /\ train_pc' = [at |-> "training", calls |-> train_pc.calls,
                       initialize |-> initialize,
                       built |-> train_pc.built \/ initialize,
                       before |-> TrainingState]

\* readVocab(training_file) on the tokens c: every vocabulary and tree it can
\* leave, for the iteration orders of the map and the arrangements of equal
\* counts in the heap
ReadVocabResults(c) ==
    LET read == ReadWords(EmptyMap, c, 1)
        reduced == { ReduceVocab(read, order, config.min_count) :
                        order \in Orders(DOMAIN read) }
        Built(voc, heap) ==
            LET t == BuildTree(voc, heap, <<>>, 0)
            IN [vocabulary |-> AssignCodes(voc, t.parent_nodes, t.heap[1],
                                           <<>>, <<>>),
                parent_nodes |-> t.parent_nodes,
                tree_root |-> t.heap[1]]
    IN UNION { IF DOMAIN voc = {}
               THEN {[vocabulary |-> voc, parent_nodes |-> <<>>,
                      tree_root |-> NoNode]}
               ELSE { Built(voc, heap) : heap \in SortedHeaps(voc) } :
               voc \in reduced }

\* train() with initialize: readVocab(training_file); initNet(); and on
TrainInitialize(c) ==
    \E r \in ReadVocabResults(c) :
        IF DOMAIN r.vocabulary = {}
        THEN \* createBinaryTree on an empty heap: the process dies
             /\ corpus' = c
             /\ vocabulary' = r.vocabulary
             /\ train_pc' = [train_pc EXCEPT !.at = "crashed",
                                             !.initialize = TRUE,
                                             !.before = TrainingState]
             /\ UNCHANGED <<file, words_processed, training_lines,
                            training_words, chunks, net, parent_nodes,
                            tree_root, unigram_table, vocab_word_count>>
        ELSE /\ corpus' = c
             /\ vocabulary' = r.vocabulary
             /\ parent_nodes' = r.parent_nodes
             /\ tree_root' = r.tree_root
             /\ vocab_word_count' =
                   SumFun([w \in DOMAIN r.vocabulary |-> r.vocabulary[w].count],
                          DOMAIN r.vocabulary)
             /\ unigram_table' =
                   [w \in DOMAIN r.vocabulary |->
                       UnigramEntries(r.vocabulary, w)]
             /\ StartTraining(c, r.vocabulary, Cardinality(DOMAIN r.vocabulary),
                              FALSE, TRUE)

\* train() without initialize
TrainContinue(c) ==
    IF vocab_word_count = 0
    THEN \* throw runtime_error("the model needs to be initialized ...")
         /\ train_pc' = [train_pc EXCEPT !.at = "failed", !.calls = @ + 1,
                                         !.initialize = FALSE,
                                         !.before = TrainingState]
         /\ UNCHANGED <<file, words_processed, training_lines, training_words,
                        chunks, net, corpus, vocabulary, parent_nodes,
                        tree_root, unigram_table, vocab_word_count>>
    ELSE /\ StartTraining(c, vocabulary, net.rows, net.trained, FALSE)
         /\ UNCHANGED <<corpus, vocabulary, parent_nodes, tree_root,
                        unigram_table, vocab_word_count>>

\* train(training_file, initialize) up to the start of the trainChunk threads
TrainBegin ==
    /\ train_pc.at \in {"idle", "returned", "failed"}
    /\ train_pc.calls < MaxCalls
    /\ \E initialize \in BOOLEAN, c \in TrainFiles :
          IF initialize THEN TrainInitialize(c) ELSE TrainContinue(c)
    /\ UNCHANGED <<config, file_nl, print_mutex, worker, trained, vocab_pc,
                   queryVars, sgdVars>>

\* the trainChunk threads, joined: every epoch adds the words of the
\* vocabulary it met to words_processed; the kernels may have written weights
TrainThreads ==
    /\ train_pc.at = "training"
    /\ LET met == SumFun([i \in DOMAIN file |-> file[i].voc], DOMAIN file)
       IN /\ words_processed' = words_processed + config.iterations * met
          /\ \E wrote \in (IF met > 0 THEN BOOLEAN ELSE {FALSE}) :
                net' = [net EXCEPT !.trained = @ \/ wrote]
    /\ train_pc' = [train_pc EXCEPT !.at = "returned", !.calls = @ + 1]
    /\ UNCHANGED <<config, file, file_nl, chunks, training_lines,
                   training_words, print_mutex, worker, trained, vocabVars,
                   queryVars, sgdVars>>

NextTrainCall ==
    \/ TrainBegin
    \/ TrainThreads

SpecTrainCall == InitTrainCall /\ [][NextTrainCall]_vars

\* C16: train(file, initialize = false) on a model whose vocabulary no
\* train built fails before it changes words_processed, training_lines,
\* training_words or the weight matrices; train(file, initialize = true)
\* leaves a vocabulary of the terms of the file that reach min_count with
\* their counts in the file, vocab_word_count their sum, the unigram table of
\* these counts, and new weight matrices of one row per term, whatever the
\* model held before.
C16_TrainInitialize ==
    /\ (train_pc.at # "idle" /\ ~train_pc.initialize /\ ~train_pc.built) =>
          /\ train_pc.at = "failed"
          /\ TrainingState = train_pc.before
    /\ (train_pc.at = "training" /\ train_pc.initialize) =>
          /\ DOMAIN vocabulary =
                { t \in Words : Occurrences(t) >= 1
                                /\ Occurrences(t) >= config.min_count }
          /\ \A t \in DOMAIN vocabulary : vocabulary[t].count = Occurrences(t)
          /\ vocab_word_count =
                SumFun([t \in DOMAIN vocabulary |-> Occurrences(t)],
                       DOMAIN vocabulary)
          /\ unigram_table =
                [t \in DOMAIN vocabulary |-> UnigramEntries(vocabulary, t)]
          /\ net.rows = VocabSize
          /\ ~net.trained
          /\ words_processed = 0

(***************************************************************************)
(* Query layer (distance.cpp).  Vectors are sequences of integers; a        *)
(* similarity is counted in hundredths (SimScale).                          *)
(***************************************************************************)
SimScale == 100

QWords == {"x", "z", "q"}

Seqs(S, n) == UNION { [1..k -> S] : k \in 0..n }

ZeroVec(d) == [c \in 1..d |-> 0]
VecAdd(u, v) == [c \in 1..Len(u) |-> u[c] + v[c]]
VecScale(u, a) == [c \in 1..Len(u) |-> u[c] * a]
Dot(u, v) == SumFun([c \in 1..Len(u) |-> u[c] * v[c]], 1..Len(u))
NormSq(u) == Dot(u, u)

ISqrt(n) == CHOOSE r \in 0..n : r * r <= n /\ n < (r + 1) * (r + 1)

\* cosineSimilarity(v1, v2): 0 for a zero vector
CosineSimilarity(v1, v2) ==
    LET len == ISqrt(NormSq(v1) * NormSq(v2))
    IN IF len = 0 THEN 0 ELSE (SimScale * Dot(v1, v2)) \div len

QNode(index, word) == [index |-> index, word |-> word, count |-> 1]

\* the models the queries run on
SrcModels ==
    { [vocabulary |-> ("x" :> QNode(0, "x") @@ "z" :> QNode(1, "z")),
       input_weights |-> iw,
       output_weights |-> (0 :> <<0, 1>> @@ 1 :> <<1, 0>>)] :
      iw \in { (0 :> <<1, 0>> @@ 1 :> <<-1, 0>>),
               (0 :> <<3, 4>> @@ 1 :> <<4, 3>>) } }

TrgModel ==
    [vocabulary |-> ("z" :> QNode(0, "z") @@ "q" :> QNode(1, "q")),
     input_weights |-> (0 :> <<4, 3>> @@ 1 :> <<0, 1>>),
     output_weights |-> (0 :> <<1, 0>> @@ 1 :> <<1, 0>>)]

\* vec MonolingualModel::wordVec(int index, int policy)
WordVecIndex(m, index, policy) ==
    IF policy = 1 /\ config.negative > 0
    THEN m.input_weights[index] \o m.output_weights[index]
    ELSE IF policy = 2 /\ config.negative > 0
    THEN VecAdd(m.input_weights[index], m.output_weights[index])
    ELSE IF policy = 3 /\ config.negative > 0
    THEN m.output_weights[index]
    ELSE m.input_weights[index]

\* vec MonolingualModel::wordVec(const string& word, int policy)
WordVec(m, word, policy) ==
    IF word \notin DOMAIN m.vocabulary
    THEN [thrown |-> "runtime_error", vec |-> <<>>]
    ELSE [thrown |-> "none",
          vec |-> WordVecIndex(m, m.vocabulary[word].index, policy)]

\* float MonolingualModel::similarity(word1, word2, policy)
Similarity(m, word1, word2, policy) ==
    IF word1 \notin DOMAIN m.vocabulary \/ word2 \notin DOMAIN m.vocabulary
    THEN 0
    ELSE IF m.vocabulary[word1].index = m.vocabulary[word2].index
    THEN SimScale
    ELSE CosineSimilarity(WordVecIndex(m, m.vocabulary[word1].index, policy),
                          WordVecIndex(m, m.vocabulary[word2].index, policy))

\* float BilingualModel::similarity(src_word, trg_word, policy)
BilingualSimilarity(sm, tm, src_word, trg_word, policy) ==
    IF src_word \notin DOMAIN sm.vocabulary \/ trg_word \notin DOMAIN tm.vocabulary
    THEN 0
    ELSE CosineSimilarity(WordVecIndex(sm, sm.vocabulary[src_word].index, policy),
                          WordVecIndex(tm, tm.vocabulary[trg_word].index, policy))

PairSimilarity(bilingual, w1, w2, policy) ==
    IF bilingual THEN BilingualSimilarity(src_model, trg_model, w1, w2, policy)
    ELSE Similarity(src_model, w1, w2, policy)

\* if (words2.size() != words2.size()) throw runtime_error(...)
NgramsSizeCheck(words1, words2) == Len(words2) # Len(words2)

RECURSIVE NgramsLoop(_, _, _, _, _, _, _)
NgramsLoop(bilingual, words1, words2, policy, i, res, n) ==
    \* for (i = 0; i < words1.size(); ++i)
    \*     try { res += similarity(words1[i], words2[i], policy); n += 1; } catch (runtime_error) {}
    \* similarity returns 0.0 for an unknown word, it never throws
    IF i > Len(words1) THEN [res |-> res, n |-> n]
    ELSE NgramsLoop(bilingual, words1, words2, policy, i + 1,
                    res + PairSimilarity(bilingual, words1[i], words2[i], policy),
                    n + 1)

NgramsResult(bilingual, words1, words2, read2, policy, oob) ==
    \* read2 is words2 as the loop reads it
    LET acc == NgramsLoop(bilingual, words1, read2, policy, 1, 0, 0)
    IN [op |-> "similarityNgrams", bilingual |-> bilingual,
        seq1 |-> words1, seq2 |-> words2, policy |-> policy,
        status |-> IF acc.n = 0 THEN "AllOOV" ELSE "ok",
        res |-> acc.res, n |-> acc.n, oob |-> oob]

NgramsFailure(bilingual, words1, words2, policy, status, oob) ==
    [op |-> "similarityNgrams", bilingual |-> bilingual,
     seq1 |-> words1, seq2 |-> words2, policy |-> policy,
     status |-> status, res |-> 0, n |-> 0, oob |-> oob]

\* one side of similaritySentence: for each word try { vec += wordVec(word, policy); } catch (runtime_error) {}
RECURSIVE SentenceSum(_, _, _, _, _)
SentenceSum(m, words, policy, i, vec) ==
    IF i > Len(words) THEN vec
    ELSE LET wv == WordVec(m, words[i], policy)
         IN SentenceSum(m, words, policy, i + 1,
                        IF wv.thrown = "runtime_error" THEN vec
                        ELSE VecAdd(vec, wv.vec))

\* length = vec1.norm() * vec2.norm(); 0.0 if length == 0, else vec1.dot(vec2) / length.
\* The quotient is kept as dot and the two squared norms.
CosineOfSums(vec1, vec2) ==
    IF NormSq(vec1) = 0 \/ NormSq(vec2) = 0
    THEN [num |-> 0, nsq1 |-> 1, nsq2 |-> 1]
    ELSE [num |-> Dot(vec1, vec2), nsq1 |-> NormSq(vec1), nsq2 |-> NormSq(vec2)]

\* static std::map<std::string, float> syntax_weights, in hundredths
SyntaxWeights ==
    [t \in {"VERB", "NOUN", "PRON", "ADJ", "ADV", "ADP", "CONJ", "DET",
            "NUM", "PRT", "X", "."} |->
        CASE t = "VERB" -> 75
          [] t = "NOUN" -> 100
          [] t = "PRON" -> 10
          [] t = "ADJ"  -> 75
          [] t = "ADV"  -> 50
          [] t = "ADP"  -> 10
          [] t = "CONJ" -> 10
          [] t = "DET"  -> 10
          [] t = "NUM"  -> 50
          [] t = "PRT"  -> 10
          [] t = "X"    -> 50
          [] OTHER      -> 5]

\* pow(syntax_weights.at(tag), 1 - alpha) * pow(idf, alpha) for alpha 0 or 1,
\* in hundredths
TermWeight(tag, idf, alpha) ==
    IF alpha = 0 THEN SyntaxWeights[tag] ELSE idf * SimScale

\* one side of similaritySentenceSyntax:
\*   for (i = 0; i < words.size() && i < pos_tags.size() && i < idf.size(); ++i)
\*       try { vec += wordVec(words[i], policy) * pow(syntax_weights.at(pos_tags[i]), 1 - alpha) * pow(idf[i], alpha); }
\*       catch (runtime_error) {}
\* map::at throws std::out_of_range, which is not a runtime_error; whether
\* wordVec or at() is evaluated first is the compiler's choice (tag_first)
RECURSIVE SyntaxSum(_, _, _, _, _, _, _, _, _)
SyntaxSum(m, words, tags, idf, alpha, policy, tag_first, i, vec) ==
    IF i > Len(words) \/ i > Len(tags) \/ i > Len(idf)
    THEN [thrown |-> "none", vec |-> vec]
    ELSE LET wv == WordVec(m, words[i], policy)
             known == tags[i] \in DOMAIN SyntaxWeights
             thrown == IF tag_first
                       THEN IF ~known THEN "out_of_range" ELSE wv.thrown
                       ELSE IF wv.thrown # "none" THEN wv.thrown
                            ELSE IF ~known THEN "out_of_range" ELSE "none"
         IN IF thrown = "out_of_range"
            THEN [thrown |-> "out_of_range", vec |-> vec]
            ELSE SyntaxSum(m, words, tags, idf, alpha, policy, tag_first, i + 1,
                           IF thrown = "runtime_error" THEN vec
                           ELSE VecAdd(vec, VecScale(wv.vec,
                                    TermWeight(tags[i], idf[i], alpha))))

Tags == {"NOUN", "FOO"}
IdfValues == {0, 2}

\* words with their tags and idf values (one idf value for all terms); the
\* tags or the idf values may be one short
TaggedSides(n) ==
    UNION { { [words |-> w, tags |-> t, idf |-> f] :
                w \in [1..k -> QWords],
                t \in [1..k -> Tags] \cup [1..(k - 1) -> Tags],
                f \in { [i \in 1..k |-> v] : v \in IdfValues }
                      \cup { [i \in 1..(k - 1) |-> 2] } } :
            k \in 0..n }

Policies == {0, 2}

InitQuery ==
    /\ NetIdle
    /\ config \in { [DefaultConfig EXCEPT !.negative = n] : n \in {0, 1} }
    /\ src_model \in SrcModels
    /\ trg_model = TrgModel
    /\ query = NoQuery
    /\ VocabIdle
    /\ TrainIdle
    /\ SGDIdle

\* MonolingualModel::similarityNgrams / BilingualModel::similarityNgrams.
\* With more tokens in seq1 than in seq2 the loop reads words2[i] past the end
\* of the vector: the process dies or the read yields some string.
SimilarityNgrams ==
    /\ query = NoQuery
    /\ \E bilingual \in BOOLEAN, words1, words2 \in Seqs(QWords, MaxSeq),
          policy \in Policies :
          IF NgramsSizeCheck(words1, words2)
          THEN query' = NgramsFailure(bilingual, words1, words2, policy,
                                      "ShapeMismatch", FALSE)
          ELSE IF Len(words1) > Len(words2)
          THEN \/ query' = NgramsFailure(bilingual, words1, words2, policy,
                                         "crash", TRUE)
               \/ \E junk \in [1..(Len(words1) - Len(words2)) -> QWords] :
                     query' = NgramsResult(bilingual, words1, words2,
                                           words2 \o junk, policy, TRUE)
          ELSE query' = NgramsResult(bilingual, words1, words2, words2,
                                     policy, FALSE)
    /\ UNCHANGED <<config, src_model, trg_model, NotQuery>>

\* float MonolingualModel::similaritySentence(seq1, seq2, policy)
SimilaritySentence ==
    /\ query = NoQuery
    /\ \E words1, words2 \in Seqs(QWords, MaxSeq), policy \in Policies :
          LET vec1 == SentenceSum(src_model, words1, policy, 1,
                                  ZeroVec(config.dimension))
              vec2 == SentenceSum(src_model, words2, policy, 1,
                                  ZeroVec(config.dimension))
          IN query' = [op |-> "similaritySentence", seq1 |-> words1,
                       seq2 |-> words2, policy |-> policy, status |-> "ok",
                       vec1 |-> vec1, vec2 |-> vec2,
                       value |-> CosineOfSums(vec1, vec2)]
    /\ UNCHANGED <<config, src_model, trg_model, NotQuery>>

\* float MonolingualModel::similaritySentenceSyntax(seq1, seq2, tags1, tags2, idf1, idf2, alpha, policy)
SimilaritySentenceSyntax ==
    /\ query = NoQuery
    /\ \E s1 \in TaggedSides(MaxTagged), s2 \in TaggedSides(MaxTagged - 1),
          alpha \in {0, 1}, tag_first \in BOOLEAN :
          LET policy == 0
              sum1 == SyntaxSum(src_model, s1.words, s1.tags, s1.idf, alpha,
                                policy, tag_first, 1, ZeroVec(config.dimension))
              sum2 == SyntaxSum(src_model, s2.words, s2.tags, s2.idf, alpha,
                                policy, tag_first, 1, ZeroVec(config.dimension))
              call == [op |-> "similaritySentenceSyntax", seq1 |-> s1.words,
                       seq2 |-> s2.words, tags1 |-> s1.tags, tags2 |-> s2.tags,
                       idf1 |-> s1.idf, idf2 |-> s2.idf, alpha |-> alpha,
                       policy |-> policy]
          IN IF sum1.thrown = "out_of_range" \/ sum2.thrown = "out_of_range"
             THEN query' = call @@ [status |-> "out_of_range",
                                    vec1 |-> sum1.vec,
                                    vec2 |-> ZeroVec(config.dimension),
                                    value |-> [num |-> 0, nsq1 |-> 1, nsq2 |-> 1]]
             ELSE query' = call @@ [status |-> "ok", vec1 |-> sum1.vec,
                                    vec2 |-> sum2.vec,
                                    value |-> CosineOfSums(sum1.vec, sum2.vec)]
    /\ UNCHANGED <<config, src_model, trg_model, NotQuery>>

\* the caller takes the result (or the exception); the model is as before
QueryReturn ==
    /\ query # NoQuery
    /\ query.status \notin {"crash", "running"}
    /\ query' = NoQuery
    /\ UNCHANGED <<config, src_model, trg_model, NotQuery>>

NextQuery ==
    \/ SimilarityNgrams
    \/ SimilaritySentence
    \/ SimilaritySentenceSyntax
    \/ QueryReturn

SpecQuery == InitQuery /\ [][NextQuery]_vars

(***************************************************************************)
(* Claims about the query layer                                             *)
(***************************************************************************)
InVocab(m, w) == w \in DOMAIN m.vocabulary

\* the positions of an n-gram call where both tokens are known
KnownPairs(q) ==
    { i \in 1..Len(q.seq1) :
        /\ i <= Len(q.seq2)
        /\ InVocab(src_model, q.seq1[i])
        /\ InVocab(IF q.bilingual THEN trg_model ELSE src_model, q.seq2[i]) }

\* C8: similarityNgrams on sequences of different length fails with the
\* shape-mismatch error and has read nothing past the end of the shorter
\* sequence (monolingual and bilingual).
C8_NgramsShapeMismatch ==
    (query # NoQuery /\ query.op = "similarityNgrams"
       /\ Len(query.seq1) # Len(query.seq2)) =>
        (query.status = "ShapeMismatch" /\ ~query.oob)

\* C9: similarityNgrams on sequences of equal length returns the sum of the
\* similarities of the positions where both tokens are known, divided by the
\* number of these positions, and fails with AllOOV when there is none.
C9_NgramsAverageOfKnown ==
    (query # NoQuery /\ query.op = "similarityNgrams"
       /\ Len(query.seq1) = Len(query.seq2)) =>
        IF KnownPairs(query) = {}
        THEN query.status = "AllOOV"
        ELSE /\ query.status = "ok"
             /\ query.n = Cardinality(KnownPairs(query))
             /\ query.res =
                   SumFun([i \in KnownPairs(query) |->
                              PairSimilarity(query.bilingual, query.seq1[i],
                                             query.seq2[i], query.policy)],
                          KnownPairs(query))

\* the tokens of one side that are neither out of vocabulary nor carry an
\* unknown tag, and the sum the side should come to
CountedTerms(q, side) ==
    LET words == IF side = 1 THEN q.seq1 ELSE q.seq2
    IN IF q.op = "similaritySentence"
       THEN { i \in 1..Len(words) : InVocab(src_model, words[i]) }
       ELSE LET tags == IF side = 1 THEN q.tags1 ELSE q.tags2
                idf  == IF side = 1 THEN q.idf1 ELSE q.idf2
            IN { i \in 1..Len(words) :
                   /\ i <= Len(tags) /\ i <= Len(idf)
                   /\ InVocab(src_model, words[i])
                   /\ tags[i] \in DOMAIN SyntaxWeights }

ExpectedSum(q, side) ==
    LET words == IF side = 1 THEN q.seq1 ELSE q.seq2
        S == CountedTerms(q, side)
        term(i) ==
            LET v == WordVecIndex(src_model, src_model.vocabulary[words[i]].index,
                                  q.policy)
            IN IF q.op = "similaritySentence" THEN v
               ELSE VecScale(v, TermWeight((IF side = 1 THEN q.tags1 ELSE q.tags2)[i],
                                           (IF side = 1 THEN q.idf1 ELSE q.idf2)[i],
                                           q.alpha))
    IN [c \in 1..config.dimension |-> SumFun([i \in S |-> term(i)[c]], S)]

\* C10: similaritySentence and similaritySentenceSyntax raise no error; a
\* token that is out of vocabulary or has an unknown POS tag adds nothing to
\* its side's sum, and the result is 0.0 when a side's sum is the zero vector.
C10_SentenceNeverFails ==
    (query # NoQuery
       /\ query.op \in {"similaritySentence", "similaritySentenceSyntax"}) =>
        /\ query.status = "ok"
        /\ query.vec1 = ExpectedSum(query, 1)
        /\ query.vec2 = ExpectedSum(query, 2)
        /\ (NormSq(query.vec1) = 0 \/ NormSq(query.vec2) = 0) => query.value.num = 0

(***************************************************************************)
(* Training kernels and their locking (SYNC_SGD).  A kernel is unfolded     *)
(* into the accesses it makes to rows of the weight matrices: an access is  *)
(* [lock |-> the mutex whose lock_guard scope encloses it, touches |-> the  *)
(* rows read ("r") or written ("w")].  The values of the weights are not    *)
(* part of this specification.                                              *)
(***************************************************************************)
Touch(mat, row, rw) == [mat |-> mat, row |-> row, rw |-> rw]

\* vec* sent_vec: -1 for nullptr, a row of sent_weights (trainChunk), or
\* LocalVec for the address of sentVec's local vector
LocalVec == -2
SentTouch(sent, rw) ==
    IF sent = LocalVec THEN Touch("sent_vec", 0, rw)
    ELSE Touch("sent_weights", sent, rw)
Access(lock, touches) == [lock |-> lock, touches |-> touches]

RECURSIVE Concat(_)
Concat(ss) == IF ss = <<>> THEN <<>> ELSE Head(ss) \o Concat(Tail(ss))

\* the vocabulary the kernels run on: readVocab of "a a b" with min_count 1
SgdVocabulary ==
    LET v0 == AddWordToVocab(AddWordToVocab(AddWordToVocab(EmptyMap, "a"), "a"), "b")
        v1 == ReduceVocab(v0, <<"a", "b">>, 1)
        heap == CHOOSE h \in SortedHeaps(v1) : TRUE
        t == BuildTree(v1, heap, <<>>, 0)
    IN AssignCodes(v1, t.parent_nodes, t.heap[1], <<>>, <<>>)

MaxCode == 1    \* the longest Huffman code in SgdVocabulary

\* vec hierarchicalUpdate(node, hidden, alpha, update); `hidden` is the set of
\* reads of the weight row the reference hidden is bound to (none for a local)
RECURSIVE HierarchicalOps(_, _, _, _, _)
HierarchicalOps(node, hidden, update, sat, j) ==
    IF j > Len(node.code) THEN <<>>
    ELSE LET p == node.parents[j]
             dot == Access("none", {Touch("output_weights_hs", p, "r")} \cup hidden)
             acc == Access("none", {Touch("output_weights_hs", p, "r")})
             upd == Access("none", {Touch("output_weights_hs", p, "w")} \cup hidden)
         IN <<dot>>
            \o (IF sat[j] THEN <<>>        \* x <= -MAX_EXP || x >= MAX_EXP: continue
                ELSE <<acc>> \o (IF update THEN <<upd>> ELSE <<>>))
            \o HierarchicalOps(node, hidden, update, sat, j + 1)

RECURSIVE NegSamplingOps_AlwaysUpdate(_, _, _, _, _, _)
NegSamplingOps_AlwaysUpdate(voc, node, hidden, update, draws, d) ==
    IF d > config.negative THEN <<>>
    ELSE LET target == IF d = 0 THEN node ELSE voc[draws[d]]
             row == target.index
         IN (IF d > 0 /\ target.index = node.index
             THEN <<>>
             ELSE <<Access("output", {Touch("output_weights", row, "r")} \cup hidden),
                    Access("output", {Touch("output_weights", row, "r")}),
                    Access("output", {Touch("output_weights", row, "w")} \cup hidden)>>)
            \o NegSamplingOps_AlwaysUpdate(voc, node, hidden, update, draws, d + 1)

\* vec negSamplingUpdate(node, hidden, alpha, update); draws[d] is the word
\* getRandomHuffmanNode() returns in iteration d
RECURSIVE NegSamplingOps(_, _, _, _, _, _)
NegSamplingOps(voc, node, hidden, update, draws, d) ==
    IF d > config.negative THEN <<>>
    ELSE LET target == IF d = 0 THEN node ELSE voc[draws[d]]
             row == target.index
         IN (IF d > 0 /\ target.index = node.index
             THEN <<>>                     \* if (*target == node) continue;
             ELSE <<Access("output", {Touch("output_weights", row, "r")} \cup hidden),
                    Access("output", {Touch("output_weights", row, "r")})>>
                  \o (IF update
                      THEN <<Access("output",
                                {Touch("output_weights", row, "w")} \cup hidden)>>
                      ELSE <<>>))
            \o NegSamplingOps(voc, node, hidden, update, draws, d + 1)

OutputOps(voc, node, hidden, update, draws, sat) ==
    (IF config.hierarchical_softmax
     THEN HierarchicalOps(node, hidden, update, sat, 1) ELSE <<>>)
    \o (IF config.negative > 0
        THEN NegSamplingOps(voc, node, hidden, update, draws, 0) ELSE <<>>)

\* the positions word_pos - window .. word_pos + window, in loop order
WindowPositions(word_pos, window) ==
    [i \in 1..(2 * window + 1) |-> word_pos - window + i - 1]

IsContext(nodes, word_pos, p) == p >= 1 /\ p <= Len(nodes) /\ p # word_pos

\* trainWordCBOW; sent is the row of sent_weights behind sent_vec, -1 for nullptr
CBOWOps(voc, nodes, word_pos, sent, update, window, rnd) ==
    LET ps == WindowPositions(word_pos, window)
        ctx(p, rw) == IF IsContext(nodes, word_pos, p)
                      THEN {Touch("input_weights", voc[nodes[p]].index, rw)}
                      ELSE {}
        gather == [i \in 1..Len(ps) |-> Access("input", ctx(ps[i], "r"))]
        count == Cardinality({ i \in 1..Len(ps) : IsContext(nodes, word_pos, ps[i]) })
                 + (IF sent # -1 THEN 1 ELSE 0)
    IN gather
       \o (IF sent # -1 THEN <<Access("none", {SentTouch(sent, "r")})>>
           ELSE <<>>)
       \o (IF count = 0 THEN <<>>
           ELSE OutputOps(voc, voc[nodes[word_pos]], {}, update,
                          rnd.draws[word_pos], rnd.sat[word_pos])
                \o (IF update
                    THEN [i \in 1..Len(ps) |-> Access("input", ctx(ps[i], "w"))]
                    ELSE <<>>)
                \o (IF sent # -1
                    THEN <<Access("none", {SentTouch(sent, "w")})>>
                    ELSE <<>>))

\* trainWordDBOW: hidden is *sent_vec
DBOWOps(voc, nodes, word_pos, sent, update, rnd) ==
    OutputOps(voc, voc[nodes[word_pos]], {SentTouch(sent, "r")},
              update, rnd.draws[word_pos], rnd.sat[word_pos])
    \o <<Access("none", {SentTouch(sent, "w")})>>

\* trainWordSkipGram: hidden is input_weights[input_word.index]
SkipGramOps(voc, nodes, word_pos, update, window, rnd) ==
    LET ps == WindowPositions(word_pos, window)
        row == voc[nodes[word_pos]].index
        one(p) ==
            IF ~IsContext(nodes, word_pos, p) THEN <<>>
            ELSE OutputOps(voc, voc[nodes[p]], {Touch("input_weights", row, "r")},
                           update, rnd.draws[p], rnd.sat[p])
                 \o (IF update
                     THEN <<Access("none", {Touch("input_weights", row, "w")})>>
                     ELSE <<>>)
    IN Concat([i \in 1..Len(ps) |-> one(ps[i])])

TrainWordOps_NoDBOW(voc, nodes, word_pos, sent, update, window, rnd) ==
    IF config.skip_gram
    THEN SkipGramOps(voc, nodes, word_pos, update, window, rnd)
    ELSE CBOWOps(voc, nodes, word_pos, sent, update, window, rnd)

\* trainWord: the kernel dispatch
TrainWordOps(voc, nodes, word_pos, sent, update, window, rnd) ==
    IF config.skip_gram /\ sent # -1
    THEN DBOWOps(voc, nodes, word_pos, sent, update, rnd)
    ELSE IF config.skip_gram
    THEN SkipGramOps(voc, nodes, word_pos, update, window, rnd)
    ELSE CBOWOps(voc, nodes, word_pos, sent, update, window, rnd)

\* what multivec::rand and the saturation test come to within one trainWord
RandomChoices(voc, nodes) ==
    [draws : [1..Len(nodes) -> [1..config.negative -> DOMAIN voc]],
     sat   : [1..Len(nodes) -> [1..MaxCode -> BOOLEAN]]]

SgdThreads == 0..(config.threads - 1)

\* the sentence of thread w, OOV and subsampled tokens removed
SgdSentence(w) == IF w = 0 THEN <<"a", "b">> ELSE <<"b", "a">>

InitSGD ==
    /\ NetIdle
    /\ config \in { [DefaultConfig EXCEPT !.threads = n, !.sync_sgd = sy,
                        !.skip_gram = sg, !.sent_vector = sv,
                        !.hierarchical_softmax = hs, !.negative = ng] :
                      n \in 1..MaxSgdThreads, sy \in BOOLEAN, sg \in BOOLEAN,
                      sv \in BOOLEAN, hs \in BOOLEAN, ng \in 0..MaxNegative }
    /\ weight_mutex = [m \in {"input", "output"} |-> NoThread]
    /\ modified = {}
    /\ sgd = [w \in SgdThreads |->
                [pc |-> "word", nodes |-> SgdSentence(w), pos |-> 1,
                 sent |-> IF config.sent_vector THEN w ELSE -1,
                 update |-> TRUE, prog |-> <<>>]]
    /\ TrainIdle
    /\ VocabIdle
    /\ QueryIdle

\* trainSentence: for (pos = 0; pos < nodes.size(); ++pos) trainWord(nodes, pos, sent_vec, alpha);
StartWord(w) ==
    /\ sgd[w].pc = "word"
    /\ IF sgd[w].pos > Len(sgd[w].nodes)
       THEN sgd' = [sgd EXCEPT ![w].pc = "done"]
       ELSE \E window \in 1..config.window_size,
               rnd \in RandomChoices(SgdVocabulary, sgd[w].nodes) :
               LET ops == TrainWordOps(SgdVocabulary, sgd[w].nodes, sgd[w].pos,
                                       sgd[w].sent, sgd[w].update, window, rnd)
               IN IF ops = <<>>
                  THEN sgd' = [sgd EXCEPT ![w].pos = @ + 1]
                  ELSE sgd' = [sgd EXCEPT ![w].prog = ops, ![w].pc = "begin"]
    /\ UNCHANGED <<config, weight_mutex, modified, NotSGD>>

\* the rows an access writes
Written(op) == { [mat |-> t.mat, row |-> t.row] : t \in { u \in op.touches : u.rw = "w" } }

HeldLock(op) == IF config.sync_sgd THEN op.lock ELSE "none"

\* the next access begins, inside its lock_guard if the build has one
BeginAccess(w) ==
    /\ sgd[w].pc = "begin"
    /\ LET lock == HeldLock(Head(sgd[w].prog))
       IN IF lock = "none"
          THEN UNCHANGED weight_mutex
          ELSE /\ weight_mutex[lock] = NoThread
               /\ weight_mutex' = [weight_mutex EXCEPT ![lock] = w]
    /\ sgd' = [sgd EXCEPT ![w].pc = "end"]
    /\ UNCHANGED <<config, modified, NotSGD>>

\* the access is done and the lock_guard's scope ends
EndAccess(w) ==
    /\ sgd[w].pc = "end"
    /\ LET lock == HeldLock(Head(sgd[w].prog))
       IN IF lock = "none"
          THEN UNCHANGED weight_mutex
          ELSE weight_mutex' = [weight_mutex EXCEPT ![lock] = NoThread]
    /\ IF Len(sgd[w].prog) = 1
       THEN sgd' = [sgd EXCEPT ![w].prog = <<>>, ![w].pc = "word", ![w].pos = @ + 1]
       ELSE sgd' = [sgd EXCEPT ![w].prog = Tail(@), ![w].pc = "begin"]
    /\ modified' = modified \cup Written(Head(sgd[w].prog))
    /\ UNCHANGED <<config, NotSGD>>

NextSGD ==
    \E w \in SgdThreads :
        \/ StartWord(w)
        \/ BeginAccess(w)
        \/ EndAccess(w)

SpecSGD == InitSGD /\ [][NextSGD]_vars

(***************************************************************************)
(* Claims about the kernels                                                 *)
(***************************************************************************)
\* the rows thread w is reading or writing right now
Touching(w) == IF sgd[w].pc = "end" THEN Head(sgd[w].prog).touches ELSE {}

\* the mutex of a weight matrix; monolingual.hpp declares two
MutexOf(mat) ==
    CASE mat = "input_weights" -> "input"
      [] mat = "output_weights" -> "output"
      [] OTHER -> "none"

\* C3: in a SYNC_SGD build every read and write of a weight row by a kernel
\* is made while the thread holds the lock of that row's matrix, so no two
\* threads access the same matrix at the same time.
C3_WeightAccessUnderLock ==
    config.sync_sgd =>
        /\ \A w \in SgdThreads : \A t \in Touching(w) :
              /\ MutexOf(t.mat) # "none"
              /\ weight_mutex[MutexOf(t.mat)] = w
        /\ \A w1, w2 \in SgdThreads :
              w1 # w2 =>
                 { t.mat : t \in Touching(w1) } \cap { t.mat : t \in Touching(w2) } = {}

(***************************************************************************)
(* One sentence through the kernels: sentVec(sentence), which infers a      *)
(* vector with update = false, and trainSentence(sent, sent_vec, alpha).    *)
(* The call runs as thread 0 of the kernel actions above.                   *)
(***************************************************************************)
KernelWords == {"a", "b", "u"}      \* "u" is not in SgdVocabulary

\* getNodes(sentence) with the <UNK> nodes erased
RECURSIVE KnownNodes(_, _)
KnownNodes(voc, sentence) ==
    IF sentence = <<>> THEN <<>>
    ELSE (IF Head(sentence) \in DOMAIN voc THEN <<Head(sentence)>> ELSE <<>>)
         \o KnownNodes(voc, Tail(sentence))

IdleThread ==
    [pc |-> "idle", nodes |-> <<>>, pos |-> 1, sent |-> -1, update |-> TRUE,
     prog |-> <<>>, call |-> "none", k |-> 0]

InitKernel ==
    /\ NetIdle
    /\ config \in { [DefaultConfig EXCEPT !.iterations = it, !.skip_gram = sg,
                        !.sent_vector = sv, !.hierarchical_softmax = hs,
                        !.negative = ng] :
                      it \in 1..MaxIterations, sg \in BOOLEAN, sv \in BOOLEAN,
                      hs \in BOOLEAN, ng \in 0..MaxNegative }
    /\ weight_mutex = [m \in {"input", "output"} |-> NoThread]
    /\ modified = {}
    /\ sgd = [w \in SgdThreads |-> IdleThread]
    /\ TrainIdle
    /\ VocabIdle
    /\ QueryIdle

\* vec MonolingualModel::sentVec(sentence), up to the first trainWord
SentVecCall ==
    /\ sgd[0].pc = "idle"
    /\ \E sentence \in Seqs(KernelWords, MaxKernelLen) :
          LET nodes == KnownNodes(SgdVocabulary, sentence)
          IN IF nodes = <<>>
             THEN sgd' = [sgd EXCEPT ![0].pc = "thrown", ![0].call = "sentVec"]
             ELSE sgd' = [sgd EXCEPT ![0] =
                            [IdleThread EXCEPT !.pc = "word", !.nodes = nodes,
                                !.sent = LocalVec, !.update = FALSE,
                                !.call = "sentVec"]]
    /\ UNCHANGED <<config, weight_mutex, modified, NotSGD>>

\* for (int k = 0; k < config->iterations; ++k): the next pass, or return sent_vec
SentVecIterate ==
    /\ sgd[0].pc = "done" /\ sgd[0].call = "sentVec"
    /\ IF sgd[0].k + 1 < config.iterations
       THEN sgd' = [sgd EXCEPT ![0].k = @ + 1, ![0].pos = 1, ![0].pc = "word"]
       ELSE sgd' = [sgd EXCEPT ![0].k = @ + 1, ![0].pc = "returned"]
    /\ UNCHANGED <<config, weight_mutex, modified, NotSGD>>

\* int MonolingualModel::trainSentence(sent, sent_vec, alpha) as trainChunk
\* calls it, up to the first trainWord (subsampling off)
TrainSentenceCall ==
    /\ sgd[0].pc = "idle"
    /\ \E sentence \in Seqs(KernelWords, MaxKernelLen) :
          LET nodes == KnownNodes(SgdVocabulary, sentence)
          IN IF nodes = <<>>
             THEN sgd' = [sgd EXCEPT ![0].pc = "returned",
                                     ![0].call = "trainSentence"]
             ELSE sgd' = [sgd EXCEPT ![0] =
                            [IdleThread EXCEPT !.pc = "word", !.nodes = nodes,
                                !.sent = IF config.sent_vector THEN 0 ELSE -1,
                                !.call = "trainSentence"]]
    /\ UNCHANGED <<config, weight_mutex, modified, NotSGD>>

\* return words;
TrainSentenceReturn ==
    /\ sgd[0].pc = "done" /\ sgd[0].call = "trainSentence"
    /\ sgd' = [sgd EXCEPT ![0].pc = "returned"]
    /\ UNCHANGED <<config, weight_mutex, modified, NotSGD>>

NextKernel ==
    \/ SentVecCall
    \/ SentVecIterate
    \/ TrainSentenceCall
    \/ TrainSentenceReturn
    \/ StartWord(0)
    \/ BeginAccess(0)
    \/ EndAccess(0)

SpecKernel == InitKernel /\ [][NextKernel]_vars

WeightMatrices ==
    {"input_weights", "output_weights", "output_weights_hs", "sent_weights"}

\* C15: sentVec(sentence) writes no row of input_weights, output_weights,
\* output_weights_hs or sent_weights, whatever the configuration (CBOW or
\* DBOW, hierarchical softmax on or off, negative >= 0): the kernels it runs
\* modify only the vector being inferred.
C15_SentVecFreezesWeights ==
    sgd[0].call = "sentVec" =>
        /\ \A m \in modified : m.mat \notin WeightMatrices
        /\ \A t \in Touching(0) : t.rw = "w" => t.mat = "sent_vec"

\* sentVec has returned after two passes that used both output layers
C15_Witness ==
    /\ sgd[0].call = "sentVec" /\ sgd[0].pc = "returned"
    /\ sgd[0].k = 2 /\ Len(sgd[0].nodes) = 2
    /\ config.hierarchical_softmax /\ config.negative > 0
    /\ modified = {[mat |-> "sent_vec", row |-> 0]}

\* C20: a DBOW step (skip_gram set, a sentence vector supplied) writes no
\* row of input_weights: it writes the sentence vector and, with update on,
\* rows of output_weights and output_weights_hs only; with update off it
\* writes the sentence vector alone.
C20_DBOWLeavesInputWeights ==
    (config.skip_gram /\ sgd[0].sent # -1) =>
        /\ \A m \in modified :
              /\ m.mat # "input_weights"
              /\ ~sgd[0].update => m.mat \in {"sent_vec", "sent_weights"}
        /\ \A t \in Touching(0) : t.rw = "w" => t.mat # "input_weights"

\* a training sentence of two words went through DBOW with both output
\* layers: its sentence row and output rows are written
C20_Witness ==
    /\ config.skip_gram /\ config.sent_vector
    /\ sgd[0].call = "trainSentence" /\ sgd[0].pc = "returned"
    /\ Len(sgd[0].nodes) = 2
    /\ [mat |-> "sent_weights", row |-> 0] \in modified
    /\ \E m1, m2 \in modified :
          m1.mat = "output_weights" /\ m2.mat = "output_weights_hs"

(***************************************************************************)
(* The kernels with the values of the weights: trainWordCBOW and            *)
(* negSamplingUpdate on one thread.  The components of the vectors are      *)
(* multiples of WeightUnit, so that every division by a count is exact.     *)
(* What sigmoid makes of a dot product is not computed: the error vector    *)
(* the output layers return is any of ErrorVectors.                         *)
(***************************************************************************)
WeightUnit == 6

\* vec / int, component by component
VecDiv(u, n) == [c \in 1..Len(u) |-> u[c] \div n]

\* the rows of input_weights before the call, by index in SgdVocabulary
CbowWeights ==
    { (0 :> <<WeightUnit, 2 * WeightUnit>> @@ 1 :> <<-2 * WeightUnit, 3 * WeightUnit>>),
      (0 :> <<0, WeightUnit>> @@ 1 :> <<WeightUnit, 0>>) }

\* *sent_vec before the call
CbowSentVec == <<2 * WeightUnit, -WeightUnit>>

\* what hierarchicalUpdate and negSamplingUpdate return, summed
ErrorVectors ==
    { <<0, 0>>, <<WeightUnit, -2 * WeightUnit>>, <<3 * WeightUnit, WeightUnit>> }

CbowSentences == UNION { [1..n -> DOMAIN SgdVocabulary] : n \in 1..MaxCbowLen }

\* the context positions of word_pos, in loop order
ContextPositions(nodes, word_pos, window) ==
    SelectSeq(WindowPositions(word_pos, window),
              LAMBDA p : IsContext(nodes, word_pos, p))

\* hidden += input_weights[nodes[pos].index], over the positions ps from i on
RECURSIVE SumRows(_, _, _, _, _)
SumRows(iw, voc, nodes, ps, i) ==
    IF i > Len(ps) THEN ZeroVec(config.dimension)
    ELSE VecAdd(iw[voc[nodes[ps[i]]].index], SumRows(iw, voc, nodes, ps, i + 1))

\* input_weights[nodes[pos].index] += delta, over the positions ps from i on
RECURSIVE AddToRows(_, _, _, _, _, _)
AddToRows(iw, voc, nodes, ps, i, delta) ==
    IF i > Len(ps) THEN iw
    ELSE LET row == voc[nodes[ps[i]]].index
         IN AddToRows([iw EXCEPT ![row] = VecAdd(@, delta)], voc, nodes, ps,
                      i + 1, delta)

\* negSamplingUpdate without the test for a drawn target
RECURSIVE NegSamplingUpdate_NoSkip(_, _, _, _, _)
NegSamplingUpdate_NoSkip(voc, node, update, draws, d) ==
    IF d > config.negative THEN <<>>
    ELSE LET target == IF d = 0 THEN node ELSE voc[draws[d]]
             label == IF d = 0 THEN 1 ELSE 0
         IN (IF update THEN <<[row |-> target.index, label |-> label, d |-> d]>>
             ELSE <<>>)
            \o NegSamplingUpdate_NoSkip(voc, node, update, draws, d + 1)

\* negSamplingUpdate(node, hidden, alpha, update): the updates
\* output_weights[target->index] += error * hidden it makes, each with the
\* label of its iteration d; draws[d] is the word getRandomHuffmanNode() returns
RECURSIVE NegSamplingUpdate(_, _, _, _, _)
NegSamplingUpdate(voc, node, update, draws, d) ==
    IF d > config.negative THEN <<>>
    ELSE LET target == IF d = 0 THEN node ELSE voc[draws[d]]
             label == IF d = 0 THEN 1 ELSE 0
         IN (IF d > 0 /\ target.index = node.index
             THEN <<>>                     \* if (*target == node) continue;
             ELSE IF update
             THEN <<[row |-> target.index, label |-> label, d |-> d]>>
             ELSE <<>>)
            \o NegSamplingUpdate(voc, node, update, draws, d + 1)

\* trainWordCBOW(nodes, word_pos, sent_vec, alpha, update); sent_vec is <<>>
\* for nullptr; error is what the output layers return for hidden
TrainWordCBOW(voc, iw, nodes, word_pos, sent_vec, update, window, error) ==
    LET ps == ContextPositions(nodes, word_pos, window)
        has_sent == sent_vec # <<>>
        summands == Len(ps) + (IF has_sent THEN 1 ELSE 0)
        sum == IF has_sent THEN VecAdd(SumRows(iw, voc, nodes, ps, 1), sent_vec)
               ELSE SumRows(iw, voc, nodes, ps, 1)
    IN IF summands = 0
       THEN \* if (count == 0) return;
            [returned_early |-> TRUE, hidden |-> sum, input_weights |-> iw,
             sent_vec |-> sent_vec]
       ELSE LET \* if (config->no_average) count = 1;
                count == IF config.no_average THEN 1 ELSE summands
                delta == VecDiv(error, count)
            IN [returned_early |-> FALSE,
                hidden |-> VecDiv(sum, count),      \* hidden /= count;
                input_weights |-> IF update
                                  THEN AddToRows(iw, voc, nodes, ps, 1, delta)
                                  ELSE iw,
                sent_vec |-> IF has_sent THEN VecAdd(sent_vec, delta)
                             ELSE sent_vec]

NoKernelCall == [pc |-> "idle"]

InitCBOW ==
    /\ NetIdle
    /\ config \in { [DefaultConfig EXCEPT !.no_average = na, !.negative = ng,
                        !.hierarchical_softmax = hs, !.sent_vector = sv] :
                      na \in BOOLEAN, ng \in 0..MaxDraws, hs \in BOOLEAN,
                      sv \in BOOLEAN }
    /\ \E iw \in CbowWeights :
          src_model = [vocabulary |-> SgdVocabulary, input_weights |-> iw,
                       sent_vec |-> IF config.sent_vector THEN CbowSentVec
                                    ELSE <<>>]
    /\ trg_model = TrgModel
    /\ query = NoQuery
    /\ weight_mutex = EmptyMap
    /\ modified = {}
    /\ sgd = (0 :> NoKernelCall)
    /\ TrainIdle
    /\ VocabIdle

\* one call of trainWordCBOW from trainSentence (update) or sentVec (no update)
TrainWordCBOWCall ==
    /\ sgd[0].pc = "idle"
    /\ \E nodes \in CbowSentences, update \in BOOLEAN,
          window \in 1..config.window_size :
        \E word_pos \in 1..Len(nodes),
           draws \in [1..config.negative -> DOMAIN SgdVocabulary],
           error \in (IF config.hierarchical_softmax \/ config.negative > 0
                      THEN ErrorVectors ELSE {ZeroVec(config.dimension)}) :
          LET voc == src_model.vocabulary
              r == TrainWordCBOW(voc, src_model.input_weights, nodes, word_pos,
                                 src_model.sent_vec, update, window, error)
              ran == ~r.returned_early /\ config.negative > 0
          IN /\ src_model' = [src_model EXCEPT
                                 !.input_weights = r.input_weights,
                                 !.sent_vec = r.sent_vec]
             /\ sgd' = [sgd EXCEPT ![0] =
                         [pc |-> "returned",
                          nodes |-> nodes, word_pos |-> word_pos,
                          window |-> window, update |-> update,
                          draws |-> draws, error |-> error,
                          before |-> src_model,
                          returned_early |-> r.returned_early,
                          hidden |-> r.hidden,
                          neg_sampling |-> ran,
                          updates |-> IF ran
                                      THEN NegSamplingUpdate(voc,
                                               voc[nodes[word_pos]], update,
                                               draws, 0)
                                      ELSE <<>>]]
    /\ UNCHANGED <<config, trg_model, query, weight_mutex, modified,
                   trainVars, vocabVars, netVars>>

\* back in the caller
TrainWordCBOWReturn ==
    /\ sgd[0].pc = "returned"
    /\ sgd' = [sgd EXCEPT ![0].pc = "done"]
    /\ UNCHANGED <<config, src_model, trg_model, query, weight_mutex, modified,
                   trainVars, vocabVars, netVars>>

NextCBOW ==
    \/ TrainWordCBOWCall
    \/ TrainWordCBOWReturn

SpecCBOW == InitCBOW /\ [][NextCBOW]_vars

\* the summands of hidden in the call on record: the context rows, then *sent_vec
CallContext == ContextPositions(sgd[0].nodes, sgd[0].word_pos, sgd[0].window)
CallSummands ==
    Len(CallContext) + (IF sgd[0].before.sent_vec # <<>> THEN 1 ELSE 0)
CallSum ==
    LET rows == SumRows(sgd[0].before.input_weights, sgd[0].before.vocabulary,
                        sgd[0].nodes, CallContext, 1)
    IN IF sgd[0].before.sent_vec # <<>>
       THEN VecAdd(rows, sgd[0].before.sent_vec) ELSE rows

\* how often row is a context row of the call on record
TimesInContext(row) ==
    Cardinality({ i \in 1..Len(CallContext) :
        sgd[0].before.vocabulary[sgd[0].nodes[CallContext[i]]].index = row })

\* C21: in trainWordCBOW with count >= 1 summands, with no_average hidden is
\* the undivided sum of the summands and without it the sum divided by count;
\* in both cases what is added to each context row (once for each of its
\* context positions, with update on) and to the sentence vector is the
\* error divided by count.
C21_CbowErrorDividedByCount ==
    (sgd[0].pc = "returned" /\ CallSummands >= 1) =>
        LET share == VecDiv(sgd[0].error, CallSummands)
        IN /\ sgd[0].hidden = IF config.no_average THEN CallSum
                              ELSE VecDiv(CallSum, CallSummands)
           /\ sgd[0].update =>
                 \A row \in DOMAIN src_model.input_weights :
                    src_model.input_weights[row] =
                       VecAdd(sgd[0].before.input_weights[row],
                              VecScale(share, TimesInContext(row)))
           /\ sgd[0].before.sent_vec # <<>> =>
                 src_model.sent_vec = VecAdd(sgd[0].before.sent_vec, share)

\* with averaging on, hidden and the error added are both divided by count
CbowAveragedDivides ==
    ~config.no_average => C21_CbowErrorDividedByCount

\* C22: a call of negSamplingUpdate with update on makes exactly one update
\* of the target's row with label 1 and none with label 0; iteration d >= 1
\* updates the row of its drawn term with label 0 when that term is not the
\* target and makes no update when it is, so that the updates are at most
\* negative + 1, at most one for each iteration.
C22_NegSamplingUpdates ==
    (sgd[0].pc = "returned" /\ sgd[0].neg_sampling /\ sgd[0].update) =>
        LET voc == sgd[0].before.vocabulary
            target == voc[sgd[0].nodes[sgd[0].word_pos]].index
            ups == sgd[0].updates
            At(d) == { i \in 1..Len(ups) : ups[i].d = d }
        IN /\ Cardinality({ i \in 1..Len(ups) :
                  ups[i].row = target /\ ups[i].label = 1 }) = 1
           /\ \A i \in 1..Len(ups) : ups[i].row = target => ups[i].label = 1
           /\ \A d \in 1..config.negative :
                 IF voc[sgd[0].draws[d]].index = target
                 THEN At(d) = {}
                 ELSE /\ Cardinality(At(d)) = 1
                      /\ \A i \in At(d) :
                            /\ ups[i].row = voc[sgd[0].draws[d]].index
                            /\ ups[i].label = 0
           /\ Len(ups) <= config.negative + 1
           /\ \A i \in 1..Len(ups) : ups[i].d \in 0..config.negative

\* two negative draws, one of them the target and skipped, the other updated
C22_Witness ==
    /\ sgd[0].pc = "returned"
    /\ sgd[0].neg_sampling
    /\ sgd[0].update
    /\ config.negative = 2
    /\ Len(sgd[0].updates) = 2
    /\ sgd[0].draws[1] = sgd[0].nodes[sgd[0].word_pos]
    /\ sgd[0].draws[2] # sgd[0].nodes[sgd[0].word_pos]

(***************************************************************************)
(* Lookups on a trained model: wordVec, closest, softWER and               *)
(* dictionaryInduction.  The calls use the variables of the query layer.    *)
(***************************************************************************)
LWords == {"x", "z", "q", "u"}      \* "u" is in no vocabulary
WerWords == {"x", "z", "u"}         \* the tokens of softWER's sequences
SrcWords == {"x", "z", "u"}         \* the words of a source list

\* the source models of the lookups: three terms, every row of integer norm;
\* in the first one z and q are equally similar to x
LookupModels ==
    { [vocabulary |-> ("x" :> QNode(0, "x") @@ "z" :> QNode(1, "z")
                       @@ "q" :> QNode(2, "q")),
       input_weights |-> iw,
       output_weights |-> (0 :> <<0, 1>> @@ 1 :> <<1, 0>> @@ 2 :> <<-1, 0>>)] :
      iw \in { (0 :> <<1, 0>> @@ 1 :> <<0, 1>> @@ 2 :> <<0, -1>>),
               (0 :> <<3, 4>> @@ 1 :> <<4, 3>> @@ 2 :> <<1, 0>>) } }

AllPolicies == 0..3

InitLookup ==
    /\ NetIdle
    /\ config \in { [DefaultConfig EXCEPT !.negative = n, !.threads = t] :
                      n \in {0, 1}, t \in 1..MaxDictThreads }
    /\ src_model \in LookupModels
    /\ trg_model = TrgModel
    /\ query = NoQuery
    /\ VocabIdle
    /\ TrainIdle
    /\ SGDIdle

\* vec MonolingualModel::wordVec(int index, int policy) const, on a row of the model
WordVecCall ==
    /\ query = NoQuery
    /\ \E w \in DOMAIN src_model.vocabulary, policy \in AllPolicies :
          LET index == src_model.vocabulary[w].index
          IN query' = [op |-> "wordVec", index |-> index, policy |-> policy,
                       status |-> "ok",
                       vec |-> WordVecIndex(src_model, index, policy)]
    /\ UNCHANGED <<config, src_model, trg_model, NotQuery>>

\* static bool comp(p1, p2): p1 goes before p2
ClosestComp(p1, p2) == p1.second > p2.second

\* the loop of closest(word, n, policy) over the unordered_map, in iteration
\* order `order`: every other term with its cosine similarity to the word
RECURSIVE ClosestCandidates(_, _, _, _, _)
ClosestCandidates(m, index, policy, order, i) ==
    IF i > Len(order) THEN <<>>
    ELSE LET node == m.vocabulary[order[i]]
             rest == ClosestCandidates(m, index, policy, order, i + 1)
         IN IF node.index # index
            THEN <<[first |-> node.word,
                    second |-> CosineSimilarity(WordVecIndex(m, index, policy),
                                                WordVecIndex(m, node.index, policy))]>>
                 \o rest
            ELSE rest

\* std::partial_sort(res.begin(), res.begin() + n, res.end(), comp) with
\* n <= res.size(): the arrangements of res the call may leave, the first n
\* elements ordered by comp and no later element going before one of them
PartialSort(res, n) ==
    { [i \in 1..Len(res) |-> res[perm[i]]] : perm \in
        { q \in Orders(1..Len(res)) :
            /\ \A i, j \in 1..n : i < j => ~ClosestComp(res[q[j]], res[q[i]])
            /\ \A i \in 1..n : \A j \in (n + 1)..Len(res) :
                  ~ClosestComp(res[q[j]], res[q[i]]) } }

\* vector<pair<string, float>> MonolingualModel::closest(word, n, policy).
\* With n > res.size() the middle iterator res.begin() + n lies past res.end():
\* the call is undefined, the process dies or res is left in some arrangement.
Closest ==
    /\ query = NoQuery
    /\ \E word \in LWords, n \in 0..MaxClosest, policy \in Policies,
          order \in Orders(DOMAIN src_model.vocabulary) :
          LET call == [op |-> "closest", word |-> word, n |-> n, policy |-> policy]
          IN IF word \notin DOMAIN src_model.vocabulary
             THEN query' = call @@ [status |-> "OOV word", res |-> <<>>]
             ELSE LET res == ClosestCandidates(src_model,
                                 src_model.vocabulary[word].index, policy, order, 1)
                  IN IF n > Len(res)
                     THEN \/ query' = call @@ [status |-> "crash", res |-> <<>>]
                          \/ \E perm \in Orders(1..Len(res)) :
                                query' = call @@ [status |-> "ok",
                                    res |-> [i \in 1..Len(res) |-> res[perm[i]]]]
                     ELSE \E sorted \in PartialSort(res, n) :
                             query' = call @@ [status |-> "ok",
                                 res |-> IF Len(sorted) > n
                                         THEN SubSeq(sorted, 1, n) ELSE sorted]
    /\ UNCHANGED <<config, src_model, trg_model, NotQuery>>

\* float MonolingualModel::distance(word1, word2, policy): (1.0 - similarity) / 2.0,
\* in units of 1 / (2 * SimScale)
Distance(m, word1, word2, policy) == SimScale - Similarity(m, word1, word2, policy)

\* the cost 1 of a deletion or an insertion, in the unit of Distance
UnitCost == 2 * SimScale

Min(a, b) == IF a < b THEN a ELSE b

Min3(a, b, c) == Min(a, Min(b, c))

RECURSIVE SoftWerTable_FreeInsertion(_, _, _, _, _, _)
SoftWerTable_FreeInsertion(m, s1, s2, policy, i, j) ==
    IF i = 0 THEN j * UnitCost
    ELSE IF j = 0 THEN i * UnitCost
    ELSE Min3(SoftWerTable_FreeInsertion(m, s1, s2, policy, i - 1, j) + UnitCost,
              SoftWerTable_FreeInsertion(m, s1, s2, policy, i, j - 1),
              SoftWerTable_FreeInsertion(m, s1, s2, policy, i - 1, j - 1)
                 + Distance(m, s1[i], s2[j], policy))

\* the entry d[i][j] of the table softWER fills
RECURSIVE SoftWerTable(_, _, _, _, _, _)
SoftWerTable(m, s1, s2, policy, i, j) ==
    IF i = 0 THEN j * UnitCost
    ELSE IF j = 0 THEN i * UnitCost
    ELSE Min3(SoftWerTable(m, s1, s2, policy, i - 1, j) + UnitCost,
              SoftWerTable(m, s1, s2, policy, i, j - 1) + UnitCost,
              SoftWerTable(m, s1, s2, policy, i - 1, j - 1)
                 + Distance(m, s1[i], s2[j], policy))

\* float MonolingualModel::softWER(hyp, ref, policy): value is the quotient
\* d[len1][len2] / len2, kept as numerator and denominator (len2 = 0 gives
\* the float inf or NaN)
SoftWER ==
    /\ query = NoQuery
    /\ \E s1, s2 \in Seqs(WerWords, MaxWer), policy \in Policies :
          query' = [op |-> "softWER", hyp |-> s1, ref |-> s2, policy |-> policy,
                    status |-> "ok",
                    value |-> [num |-> SoftWerTable(src_model, s1, s2, policy,
                                                    Len(s1), Len(s2)),
                               den |-> Len(s2)]]
    /\ UNCHANGED <<config, src_model, trg_model, NotQuery>>

\* vec / vec.norm(): the vector with its norm (the models' rows have integer norms)
Normalized(v) == [vec |-> v, norm |-> ISqrt(NormSq(v))]

\* src_vec.dot(trg_it->second) on two normalized vectors, as a fraction
UnitDot(u, v) == [num |-> Dot(u.vec, v.vec), den |-> u.norm * v.norm]

\* sim > similarity
GreaterSim(a, b) == a.num * b.den > b.num * a.den

\* the loops of BilingualModel::dictionaryInduction that look the words up:
\* (word, normalized vector) of each listed word the model knows
RECURSIVE KnownWords(_, _, _, _)
KnownWords(m, vocab, policy, i) ==
    IF i > Len(vocab) THEN <<>>
    ELSE (IF vocab[i] \in DOMAIN m.vocabulary
          THEN LET node == m.vocabulary[vocab[i]]
               IN <<[first |-> node.word,
                     second |-> Normalized(WordVecIndex(m, node.index, policy))]>>
          ELSE <<>>)
         \o KnownWords(m, vocab, policy, i + 1)

\* the inner loop of ::dictionaryInduction: the position in trg_words of the
\* best target so far, 0 for trg_words.end()
RECURSIVE BestTarget(_, _, _, _)
BestTarget(src_vec, trg_words, j, trg_index) ==
    IF j > Len(trg_words) THEN trg_index
    ELSE IF trg_index = 0
            \/ GreaterSim(UnitDot(src_vec, trg_words[j].second),
                          UnitDot(src_vec, trg_words[trg_index].second))
    THEN BestTarget(src_vec, trg_words, j + 1, j)
    ELSE BestTarget(src_vec, trg_words, j + 1, trg_index)

\* void dictionaryInduction(src_words, trg_words, dictionary)
RECURSIVE InduceSlice(_, _, _)
InduceSlice(src_words, trg_words, i) ==
    IF i > Len(src_words) THEN <<>>
    ELSE LET trg_index == BestTarget(src_words[i].second, trg_words, 1, 0)
         IN (IF trg_index # 0
             THEN <<[first |-> src_words[i].first,
                     second |-> trg_words[trg_index].first]>>
             ELSE <<>>)
            \o InduceSlice(src_words, trg_words, i + 1)

SliceOf_NoRemainder(n_words, threads, i) ==
    LET size == n_words \div threads
        begin == i * size
    IN [begin |-> begin, end |-> begin + size]

\* the bounds [begin, end) of splits[i], 0-based as in the code
SliceOf(n_words, threads, i) ==
    LET size == n_words \div threads
        begin == i * size
    IN [begin |-> begin,
        end |-> IF i = threads - 1 THEN n_words ELSE begin + size]

TrgWords == {"z", "q", "u"}

\* BilingualModel::dictionaryInduction(src_vocab, trg_vocab, policy) up to the
\* start of the threads; with config->threads == 1 the whole call
DictionaryInductionStart ==
    /\ query = NoQuery
    /\ \E src_vocab \in Seqs(SrcWords, MaxDict), trg_vocab \in Seqs(TrgWords, 2),
          policy \in {0, 3} :
          LET src_words == KnownWords(src_model, src_vocab, policy, 1)
              trg_words == KnownWords(trg_model, trg_vocab, policy, 1)
              call == [op |-> "dictionaryInduction", src_vocab |-> src_vocab,
                       trg_vocab |-> trg_vocab, policy |-> policy,
                       src_words |-> src_words, trg_words |-> trg_words]
          IN IF config.threads = 1
             THEN query' = call @@
                     [status |-> "ok", splits |-> <<>>, dictionaries |-> <<>>,
                      finished |-> {}, joined |-> 0,
                      dictionary |-> InduceSlice(src_words, trg_words, 1)]
             ELSE query' = call @@
                     [status |-> "running",
                      splits |-> [k \in 1..config.threads |->
                                    SliceOf(Len(src_words), config.threads, k - 1)],
                      dictionaries |-> [k \in 1..config.threads |-> <<>>],
                      finished |-> {}, joined |-> 0,
                      dictionary |-> <<>>]
    /\ UNCHANGED <<config, src_model, trg_model, NotQuery>>

\* thread i runs ::dictionaryInduction(splits[i], trg_words, dictionaries[i])
DictionaryInductionThread(i) ==
    /\ query # NoQuery /\ query.op = "dictionaryInduction"
    /\ query.status = "running"
    /\ i \notin query.finished
    /\ LET sl == query.splits[i + 1]
           words == SubSeq(query.src_words, sl.begin + 1, sl.end)
       IN query' = [query EXCEPT
                      !.dictionaries[i + 1] = InduceSlice(words, query.trg_words, 1),
                      !.finished = @ \cup {i}]
    /\ UNCHANGED <<config, src_model, trg_model, NotQuery>>

\* threads[i].join(); dictionary.insert(dictionary.end(), dictionaries[i]...)
DictionaryInductionJoin ==
    /\ query # NoQuery /\ query.op = "dictionaryInduction"
    /\ query.status = "running"
    /\ query.joined \in query.finished
    /\ query' = [query EXCEPT
                   !.dictionary = @ \o query.dictionaries[query.joined + 1],
                   !.joined = @ + 1,
                   !.status = IF query.joined + 1 = config.threads
                              THEN "ok" ELSE "running"]
    /\ UNCHANGED <<config, src_model, trg_model, NotQuery>>


NextLookup ==
    \/ WordVecCall
    \/ Closest
    \/ SoftWER
    \/ DictionaryInductionStart
    \/ \E i \in 0..(config.threads - 1) : DictionaryInductionThread(i)
    \/ DictionaryInductionJoin
    \/ QueryReturn

SpecLookup == InitLookup /\ [][NextLookup]_vars

(***************************************************************************)
(* Claims about the lookups                                                 *)
(***************************************************************************)
\* C11: wordVec(index, policy) with policy 1, 2 or 3 fails with an error when
\* config.negative is 0; with negative > 0 it returns the concatenation of the
\* input and output rows (length 2D), their sum, or the output row; policy 0
\* always returns the input row.
C11_WordVecPolicy ==
    (query # NoQuery /\ query.op = "wordVec") =>
        LET i == query.index
            inp == src_model.input_weights[i]
            out == src_model.output_weights[i]
        IN CASE query.policy = 0 ->
                  query.status = "ok" /\ query.vec = inp
             [] query.policy # 0 /\ config.negative = 0 ->
                  query.status # "ok"
             [] query.policy = 1 /\ config.negative > 0 ->
                  /\ query.status = "ok"
                  /\ query.vec = inp \o out
                  /\ Len(query.vec) = 2 * config.dimension
             [] query.policy = 2 /\ config.negative > 0 ->
                  query.status = "ok" /\ query.vec = VecAdd(inp, out)
             [] query.policy = 3 /\ config.negative > 0 ->
                  query.status = "ok" /\ query.vec = out

\* the similarity closest() computes between two terms of the source model
ClosestSim(w1, w2, policy) ==
    CosineSimilarity(WordVecIndex(src_model, src_model.vocabulary[w1].index, policy),
                     WordVecIndex(src_model, src_model.vocabulary[w2].index, policy))

OtherTerms(w) == DOMAIN src_model.vocabulary \ {w}

\* C12: for an in-vocabulary word w and any n >= 0, also n larger than the
\* number of other terms, closest(w, n) returns min(n, |vocabulary| - 1)
\* results, none of them w, each a distinct vocabulary term with its
\* similarity, strictly sorted by similarity descending, no excluded term
\* being more similar than a returned one; for n >= |vocabulary| - 1 the
\* result is a permutation of all other terms.
C12_ClosestNBest ==
    (query # NoQuery /\ query.op = "closest"
       /\ query.word \in DOMAIN src_model.vocabulary) =>
        LET r == query.res
            returned == { r[i].first : i \in 1..Len(r) }
        IN /\ query.status = "ok"
           /\ Len(r) = Min(query.n, Cardinality(OtherTerms(query.word)))
           /\ returned \subseteq OtherTerms(query.word)
           /\ Cardinality(returned) = Len(r)
           /\ \A i \in 1..Len(r) :
                 r[i].second = ClosestSim(query.word, r[i].first, query.policy)
           /\ \A i, j \in 1..Len(r) : i < j => r[i].second > r[j].second
           /\ \A t \in OtherTerms(query.word) \ returned : \A i \in 1..Len(r) :
                 ClosestSim(query.word, t, query.policy) <= r[i].second
           /\ query.n >= Cardinality(OtherTerms(query.word)) =>
                 returned = OtherTerms(query.word)

\* the alignments of a hypothesis of n1 tokens with a reference of n2 tokens:
\* sets of substituted pairs <<i, j>>, increasing in both positions
Alignments(n1, n2) ==
    { a \in SUBSET ((1..n1) \X (1..n2)) :
        \A p, q \in a : p # q => (p[1] < q[1] /\ p[2] < q[2])
                                 \/ (q[1] < p[1] /\ q[2] < p[2]) }

\* the cost of an alignment: the distance of each substituted pair, 1 for each
\* token left unpaired on either side
AlignmentCost(a, hyp, ref, policy) ==
    SumFun([p \in a |-> Distance(src_model, hyp[p[1]], ref[p[2]], policy)], a)
    + (Len(hyp) - Cardinality(a)) * UnitCost
    + (Len(ref) - Cardinality(a)) * UnitCost

\* the edit distance: the cost of a cheapest alignment
EditDistance(hyp, ref, policy) ==
    LET costs == { AlignmentCost(a, hyp, ref, policy) :
                     a \in Alignments(Len(hyp), Len(ref)) }
    IN CHOOSE c \in costs : \A c2 \in costs : c <= c2

AllKnown(words) == \A i \in 1..Len(words) : InVocab(src_model, words[i])

\* hyp is ref without its last k >= 1 tokens
IsPrefix(hyp, ref) ==
    Len(hyp) < Len(ref) /\ \A i \in 1..Len(hyp) : hyp[i] = ref[i]

\* C13 as stated: softWER(hyp, ref) is the edit distance with unit insertion
\* and deletion cost and substitution cost distance(h, r), divided by |ref|;
\* softWER(hyp, hyp) = 0 for a non-empty hyp of known tokens; and softWER is
\* k / |ref| whenever hyp is ref without its last k >= 1 tokens.
C13_SoftWerPrefixAnyTokens ==
    (query # NoQuery /\ query.op = "softWER" /\ Len(query.ref) > 0) =>
        /\ query.value.den = Len(query.ref)
        /\ query.value.num = EditDistance(query.hyp, query.ref, query.policy)
        /\ (query.hyp = query.ref /\ AllKnown(query.hyp)) => query.value.num = 0
        /\ IsPrefix(query.hyp, query.ref) =>
              query.value.num = (Len(query.ref) - Len(query.hyp)) * UnitCost

\* C13 (amended): softWER(hyp, ref) with a non-empty ref is the edit distance
\* with unit insertion and deletion cost and substitution cost distance(h, r),
\* divided by |ref|; softWER(hyp, hyp) = 0 for a non-empty hyp of known
\* tokens; and softWER is k / |ref| when hyp is ref without its last k >= 1
\* tokens and every token of hyp is in the vocabulary.
C13_SoftWerEditDistance ==
    (query # NoQuery /\ query.op = "softWER" /\ Len(query.ref) > 0) =>
        /\ query.value.den = Len(query.ref)
        /\ query.value.num = EditDistance(query.hyp, query.ref, query.policy)
        /\ (query.hyp = query.ref /\ AllKnown(query.hyp)) => query.value.num = 0
        /\ (IsPrefix(query.hyp, query.ref) /\ AllKnown(query.hyp)) =>
              query.value.num = (Len(query.ref) - Len(query.hyp)) * UnitCost

\* a known token followed by another one, against its one-token prefix
C13_Witness ==
    /\ query # NoQuery /\ query.op = "softWER"
    /\ Len(query.hyp) = 1 /\ Len(query.ref) = 2
    /\ IsPrefix(query.hyp, query.ref) /\ AllKnown(query.hyp)
    /\ query.value = [num |-> UnitCost, den |-> 2]

KnownSrc(w) == w \in DOMAIN src_model.vocabulary
KnownTrg(w) == w \in DOMAIN trg_model.vocabulary

\* the dot product of the unit vectors of a source and a target word
PairDot(src_word, trg_word, policy) ==
    UnitDot(Normalized(WordVecIndex(src_model,
                          src_model.vocabulary[src_word].index, policy)),
            Normalized(WordVecIndex(trg_model,
                          trg_model.vocabulary[trg_word].index, policy)))

\* the earliest of the known target words whose dot product with the source
\* word is maximal
ArgMaxTarget(src_word, targets, policy) ==
    LET best == CHOOSE j \in 1..Len(targets) :
                  /\ \A k \in 1..Len(targets) :
                        ~GreaterSim(PairDot(src_word, targets[k], policy),
                                    PairDot(src_word, targets[j], policy))
                  /\ \A k \in 1..(j - 1) :
                        GreaterSim(PairDot(src_word, targets[j], policy),
                                   PairDot(src_word, targets[k], policy))
    IN targets[best]

\* what the call should return whatever the number of threads
ExpectedDictionary(src_vocab, trg_vocab, policy) ==
    LET sources == SelectSeq(src_vocab, KnownSrc)
        targets == SelectSeq(trg_vocab, KnownTrg)
    IN IF targets = <<>> THEN <<>>
       ELSE [i \in 1..Len(sources) |->
               [first |-> sources[i],
                second |-> ArgMaxTarget(sources[i], targets, policy)]]

\* C14: dictionaryInduction(src_vocab, trg_vocab) returns, for every number
\* of threads (also more threads than source words, or a count the threads do
\* not divide), one pair per source word the source model knows, in list
\* order, each with the known target word of maximal dot product, the earliest
\* on ties (no pair when no target word is known); the slices of the threads
\* are disjoint and cover the source list.
C14_InductionSameForAllThreads ==
    (query # NoQuery /\ query.op = "dictionaryInduction") =>
        /\ query.status = "ok" =>
              query.dictionary = ExpectedDictionary(query.src_vocab,
                                     query.trg_vocab, query.policy)
        /\ config.threads > 1 =>
              /\ Len(query.splits) = config.threads
              /\ query.splits[1].begin = 0
              /\ query.splits[config.threads].end = Len(query.src_words)
              /\ \A k \in 1..config.threads :
                    query.splits[k].begin <= query.splits[k].end
              /\ \A k \in 1..(config.threads - 1) :
                    query.splits[k].end = query.splits[k + 1].begin

\* three threads on two known source words, a target chosen for each
C14_Witness ==
    /\ query # NoQuery /\ query.op = "dictionaryInduction"
    /\ query.status = "ok"
    /\ config.threads = 3
    /\ Len(query.src_words) = 2 /\ Len(query.trg_words) = 2
    /\ Len(query.dictionary) = 2
    /\ query.dictionary[1].second # query.dictionary[2].second

(***************************************************************************)
(* BilingualModel::learnMapping(dict): the loop that fits `mapping` by      *)
(* gradient descent.  The values of mapping are not part of the model: the  *)
(* loss of an epoch is 0 when no pair of the dictionary is in both          *)
(* vocabularies and any of 0..MaxLoss otherwise, counted in units of        *)
(* epsilon.  alpha is 0.01 / alpha_div.                                     *)
(***************************************************************************)
StartingPatience == 10     \* int starting_patience = 10;
Epsilon == 1               \* float epsilon = 0.0001, the unit of the losses
NoLoss == -1               \* float best_loss = -1; float prev_best_loss = -1;
AlphaFloor == 100000000    \* while (alpha > 1e-10), alpha being 0.01 / alpha_div

MapSrcWords == {"x", "u"}
MapTrgWords == {"z", "u"}
Dictionaries == Seqs(MapSrcWords \X MapTrgWords, MaxPairs)

\* the pairs of dict with both words in their vocabulary, as index pairs
RECURSIVE DictIndices(_, _, _, _)
DictIndices(src, trg, dict, i) ==
    IF i > Len(dict) THEN <<>>
    ELSE (IF dict[i][1] \in DOMAIN src.vocabulary
             /\ dict[i][2] \in DOMAIN trg.vocabulary
          THEN <<[first |-> src.vocabulary[dict[i][1]].index,
                  second |-> trg.vocabulary[dict[i][2]].index]>>
          ELSE <<>>)
         \o DictIndices(src, trg, dict, i + 1)

\* the losses the for loop over dict_indices can leave
EpochLosses(dict_indices) ==
    IF dict_indices = <<>> THEN {0} ELSE 0..MaxLoss

\* the end of an epoch, with patience decremented whatever best_loss is
EpochEnd_AlwaysImpatient(q, loss) ==
    LET patience == IF loss >= q.best_loss - Epsilon
                    THEN q.patience - 1 ELSE q.patience
        best == IF q.best_loss <= 0 THEN loss
                ELSE IF loss < q.best_loss THEN loss ELSE q.best_loss
    IN IF patience # 0
       THEN [q EXCEPT !.loss = loss, !.patience = patience, !.best_loss = best]
       ELSE IF q.prev_best_loss > 0 /\ best >= q.prev_best_loss - Epsilon
       THEN [q EXCEPT !.loss = loss, !.patience = patience, !.best_loss = best,
                      !.status = "broke"]
       ELSE [q EXCEPT !.loss = loss, !.best_loss = best,
                      !.prev_best_loss = best, !.alpha_div = 2 * @,
                      !.patience = StartingPatience]

\* the statements of the while body after the for loop, loss being the
\* epoch's loss
EpochEnd(q, loss) ==
    LET \* if (best_loss > 0 and loss >= (best_loss - epsilon)) patience -= 1;
        patience == IF q.best_loss > 0 /\ loss >= q.best_loss - Epsilon
                    THEN q.patience - 1 ELSE q.patience
        \* if (best_loss <= 0) best_loss = loss; else best_loss = min(best_loss, loss);
        best == IF q.best_loss <= 0 THEN loss
                ELSE IF loss < q.best_loss THEN loss ELSE q.best_loss
    IN IF patience # 0
       THEN [q EXCEPT !.loss = loss, !.patience = patience, !.best_loss = best]
       ELSE IF q.prev_best_loss > 0 /\ best >= q.prev_best_loss - Epsilon
       THEN \* break;
            [q EXCEPT !.loss = loss, !.patience = patience, !.best_loss = best,
                      !.status = "broke"]
       ELSE \* prev_best_loss = best_loss; alpha /= 2; patience = starting_patience;
            [q EXCEPT !.loss = loss, !.best_loss = best,
                      !.prev_best_loss = best, !.alpha_div = 2 * @,
                      !.patience = StartingPatience]

InitMapping ==
    /\ NetIdle
    /\ config = DefaultConfig
    /\ src_model \in SrcModels
    /\ trg_model = TrgModel
    /\ query = NoQuery
    /\ VocabIdle
    /\ TrainIdle
    /\ SGDIdle

\* learnMapping(dict) up to the while loop
LearnMappingCall ==
    /\ query = NoQuery
    /\ \E dict \in Dictionaries :
          query' = [op |-> "learnMapping", status |-> "running", dict |-> dict,
                    dict_indices |-> DictIndices(src_model, trg_model, dict, 1),
                    patience |-> StartingPatience, best_loss |-> NoLoss,
                    prev_best_loss |-> NoLoss, alpha_div |-> 1, loss |-> 0,
                    epochs |-> 0, tick |-> 0]
    /\ UNCHANGED <<config, src_model, trg_model, NotQuery>>

\* one pass through the body of while (alpha > 1e-10); tick is history and
\* flips with every pass
LearnMappingEpoch ==
    /\ query # NoQuery
    /\ query.op = "learnMapping"
    /\ query.status = "running"
    /\ query.alpha_div < AlphaFloor
    /\ \E loss \in EpochLosses(query.dict_indices) :
          query' = [EpochEnd(query, loss) EXCEPT !.epochs = 1, !.tick = 1 - @]
    /\ UNCHANGED <<config, src_model, trg_model, NotQuery>>

\* alpha > 1e-10 is false: the loop ends and learnMapping returns
LearnMappingLoopEnd ==
    /\ query # NoQuery
    /\ query.op = "learnMapping"
    /\ query.status = "running"
    /\ query.alpha_div >= AlphaFloor
    /\ query' = [query EXCEPT !.status = "ended"]
    /\ UNCHANGED <<config, src_model, trg_model, NotQuery>>

NextMapping ==
    \/ LearnMappingCall
    \/ LearnMappingEpoch
    \/ LearnMappingLoopEnd

SpecMapping == InitMapping /\ [][NextMapping]_vars

\* the thread that runs learnMapping is never stopped for good
SpecMappingFair == SpecMapping /\ WF_vars(NextMapping)

InLearnMapping == query # NoQuery /\ query.op = "learnMapping"

\* C23: throughout learnMapping patience stays in 0..10 and changes only in
\* an epoch whose loss is >= best_loss - epsilon with best_loss > 0; alpha
\* changes only by being halved, exactly in an epoch that brings patience to
\* 0 without breaking, and then patience is 10 again and prev_best_loss is
\* best_loss; the loop breaks exactly in an epoch that brings patience to 0
\* with prev_best_loss > 0 and best_loss >= prev_best_loss - epsilon; a
\* positive best_loss never increases.
C23_PatienceAndAlpha ==
    [][ (InLearnMapping /\ query' # NoQuery) =>
          LET q == query
              n == query'
              impatient == q.best_loss > 0 /\ n.loss >= q.best_loss - Epsilon
              exhausted == n.epochs = 1 /\ q.status = "running"
                           /\ q.alpha_div < AlphaFloor
                           /\ impatient /\ q.patience = 1
              stalled == q.prev_best_loss > 0
                         /\ n.best_loss >= q.prev_best_loss - Epsilon
          IN /\ q.patience \in 0..StartingPatience
             /\ n.patience \in 0..StartingPatience
             /\ n.patience # q.patience => impatient
             /\ n.patience < q.patience => n.patience = q.patience - 1
             /\ n.alpha_div # q.alpha_div <=> (exhausted /\ ~stalled)
             /\ n.alpha_div # q.alpha_div =>
                   /\ n.alpha_div = 2 * q.alpha_div
                   /\ n.patience = StartingPatience
                   /\ n.prev_best_loss = n.best_loss
             /\ (n.status = "broke" /\ q.status # "broke") <=>
                   (exhausted /\ stalled)
             /\ n.status = "broke" => n.patience = 0
             /\ q.best_loss > 0 => n.best_loss <= q.best_loss ]_vars

\* the loop has broken after alpha was halved at least once
C23_Witness ==
    /\ InLearnMapping
    /\ query.status = "broke"
    /\ query.patience = 0
    /\ query.alpha_div >= 2
    /\ query.prev_best_loss > 0

\* C24: learnMapping(dict) terminates for every dictionary: the loop
\* eventually breaks or ends with alpha <= 1e-10.
C24_LearnMappingTerminates ==
    [](InLearnMapping => <>(InLearnMapping /\ query.status # "running"))


====
